---- MODULE Spec2Model ----
(***************************************************************************)
(* Model of the portfolio NAV engine (backend/app/core/engine.py).         *)
(*                                                                         *)
(* Money is counted in whole currency units (integers), so round(x, 2) is  *)
(* the identity and sums are exact.  A datetime is a number of ticks, a    *)
(* date is a number of days; TicksPerDay ticks make a day and SecPerMin    *)
(* ticks make a minute.  A price history (the DataFrame a symbol's Close   *)
(* column comes from) is a function from the days it has rows for to the   *)
(* close of that day; the empty function is the empty DataFrame.           *)
(***************************************************************************)
EXTENDS Integers, Sequences, FiniteSets, TLC

(* ------------------------------ bounds -------------------------------- *)

\* Ledger rows are dated on days 0 .. MaxDay.
MaxDay == 3
\* Longest ledger (transaction rows or position rows) of a portfolio.
MaxTxns == 2
\* Ticks (the clock's resolution) per day, and per minute.
TicksPerDay == 3
SecPerMin == 2
\* Longest ledger of a portfolio valued under stale-ticker handling.
MaxStaleTxns == 3
\* How often one engine may run the replay before the model stops calling it.
MaxReplays == 2
\* Threads that call one engine.
MaxThreads == 2
\* Most bonds of a portfolio.
MaxBonds == 2

\* The days a series of daily returns, or of NAVs, is drawn over.
MaxReturns == 4
\* Longest ledger whose trades are matched.
MaxTrades == 3
\* Longest symbol spelled out of every character.
MaxSymbolLen == 3
\* Most calls of check_rate_limit.
MaxCalls == 11
\* The seconds between two readings of the wall clock, and the most ticks.
TickSeconds == 60
MaxTicks == 1

(* --------------------------- program values --------------------------- *)

\* datetime.now().date(): the last day that has passed; one ledger day lies
\* in the future.
Today == MaxDay - 1

\* Optional[...]: None is the empty tuple, a value x is <<x>>.
None == <<>>
Some(x) == <<x>>

\* NaN in a price frame (prices are positive).
NaN == -1

\* pd.Series(): the series with no dates.
EmptySeries == <<>>

StockSymbols == {"A", "B"}
AllSymbols == StockSymbols \cup {"CASH"}

\* StaleTickerAction
LIQUIDATE == "LIQUIDATE"
FREEZE == "FREEZE"
REMOVE == "REMOVE"
StaleTickerAction == {LIQUIDATE, FREEZE, REMOVE}

\* PortfolioType
TRANSACTION == "transaction"
SNAPSHOT == "snapshot"

(* ------------------------------ helpers ------------------------------- *)

Min(S) == CHOOSE x \in S : \A y \in S : x <= y
Max(S) == CHOOSE x \in S : \A y \in S : x >= y

RECURSIVE SumFn(_, _)
\* Sum of f[x] over x in S.
SumFn(f, S) ==
    IF S = {} THEN 0
    ELSE LET x == CHOOSE x \in S : TRUE IN f[x] + SumFn(f, S \ {x})

RECURSIVE SortedSeq(_)
\* sorted(S) for a set of numbers.
SortedSeq(S) ==
    IF S = {} THEN <<>>
    ELSE LET m == Min(S) IN <<m>> \o SortedSeq(S \ {m})

\* Timestamp.date() / .dt.normalize(): the day of a datetime.
DateOf(dt) == dt \div TicksPerDay

\* Timestamp.floor('min').
FloorMin(dt) == dt - ((dt % TicksPerDay) % SecPerMin)

\* The row positions of a frame, in frame order.
Rows(frame) == 1..Len(frame)

\* df.index[-1] and df['Close'].iloc[-1] of a non-empty price history.
LastDate(df) == Max(DOMAIN df)
LastPrice(df) == df[LastDate(df)]

\* series[k] = v
Put(series, k, v) == [x \in DOMAIN series \cup {k} |-> IF x = k THEN v ELSE series[x]]

SeqToSet(q) == {q[i] : i \in 1..Len(q)}

(* ----------------- what the engine is built around -------------------- *)

VARIABLES
    bonds,                      \* self.bonds
    clock                       \* datetime.now().date() while the engine lives

(* -------------------------- initial cash ------------------------------ *)

\* round(suggested, -2) as a rounding down to the hundred below.
RoundHundredsDown(x) == 100 * (x \div 100)

\* round(suggested, -2): Python rounds halves to the even neighbour.
RoundHundreds(x) ==
    IF x % 100 < 50 THEN 100 * (x \div 100)
    ELSE IF x % 100 > 50 THEN 100 * ((x \div 100) + 1)
    ELSE IF (x \div 100) % 2 = 0 THEN 100 * (x \div 100)
    ELSE 100 * ((x \div 100) + 1)

\* The effect of one row on the running cash of _calculate_suggested_deposit.
SuggestedCashDelta(txn) ==
    IF txn.side = "BUY" THEN 0 - (txn.quantity * txn.price + txn.fee)
    ELSE IF txn.side = "SELL" THEN txn.quantity * txn.price - txn.fee
    ELSE IF txn.side = "DEPOSIT" THEN txn.quantity
    ELSE IF txn.side = "WITHDRAW" THEN 0 - txn.quantity
    ELSE 0

RECURSIVE RunningMinCash(_, _, _, _)
\* min_cash after the rows i .. Len(txns), from temp_cash and min_cash.
RunningMinCash(txns, i, temp_cash, min_cash) ==
    IF i > Len(txns) THEN min_cash
    ELSE RunningMinCash(txns, i + 1, temp_cash + SuggestedCashDelta(txns[i]),
                        IF temp_cash + SuggestedCashDelta(txns[i]) < min_cash
                        THEN temp_cash + SuggestedCashDelta(txns[i]) ELSE min_cash)

\* suggested = abs(min_cash) if min_cash < 0 else 0.0, then rounded.
SuggestedFor(min_cash) ==
    IF min_cash >= 0 THEN 0
    ELSE IF 0 - min_cash > 100 THEN RoundHundreds(0 - min_cash)
    ELSE 0 - min_cash

\* PortfolioEngine._calculate_suggested_deposit
CalculateSuggestedDeposit(txns) == SuggestedFor(RunningMinCash(txns, 1, 0, 0))

DepositRows(txns) == {i \in Rows(txns) : txns[i].side = "DEPOSIT"}
TradeRows(txns) == {i \in Rows(txns) : txns[i].side \in {"BUY", "SELL"}}

\* The comparison without the flooring to the minute.
EarlyDepositsUnfloored(txns, first_trade) ==
    {i \in DepositRows(txns) : txns[i].datetime <= txns[first_trade].datetime}

\* deposit_txns['datetime'].dt.floor('min') <= first_trade_time_floored,
\* first_trade_time being the datetime of the first trade row.
EarlyDeposits(txns, first_trade) ==
    {i \in DepositRows(txns) :
        FloorMin(txns[i].datetime) <= FloorMin(txns[first_trade].datetime)}

\* initial_deposit_indices: the deposits folded into initial_cash.
InitialDepositIndices(txns) ==
    IF DepositRows(txns) = {} THEN {}
    ELSE IF TradeRows(txns) = {} THEN DepositRows(txns)
    ELSE EarlyDeposits(txns, Min(TradeRows(txns)))

\* initial_cash, given the deposits folded into it (has_initial_deposit is
\* true exactly when there are some).
InitialCashOf(txns, initIdx) ==
    IF initIdx # {}
    THEN SumFn([i \in Rows(txns) |-> txns[i].quantity], initIdx)
    ELSE CalculateSuggestedDeposit(txns)

(* ------------------------------ bonds --------------------------------- *)

\* A date is the number y * 372 + (m - 1) * 31 + (d - 1) of the day d of
\* month m of the year 2020 + y, so that dates compare as their numbers do and
\* day 0 is 2020-01-01; numbers that name no calendar day are never used.
YearOf(date) == 2020 + (date \div 372)
MonthOf(date) == ((date % 372) \div 31) + 1
DayOf(date) == (date % 31) + 1
Date(y, m, d) == (y - 2020) * 372 + (m - 1) * 31 + (d - 1)

IsLeap(y) == y % 4 = 0 /\ (y % 100 # 0 \/ y % 400 = 0)

DaysInMonth(y, m) ==
    IF m = 2 THEN (IF IsLeap(y) THEN 29 ELSE 28)
    ELSE IF m \in {4, 6, 9, 11} THEN 30
    ELSE 31

\* date + relativedelta(months=n): the month moves by n, and the day is cut
\* down to the last day of the month it lands in.
AddMonths(date, n) ==
    LET months == YearOf(date) * 12 + (MonthOf(date) - 1) + n
        y == months \div 12
        m == (months % 12) + 1
    IN Date(y, m, IF DayOf(date) > DaysInMonth(y, m) THEN DaysInMonth(y, m)
                  ELSE DayOf(date))

\* PaymentFrequency
PaymentFrequency ==
    [ZERO_COUPON |-> 0, ANNUAL |-> 1, SEMI_ANNUAL |-> 2, QUARTERLY |-> 4, MONTHLY |-> 12]

\* get_months_per_period
GetMonthsPerPeriod(frequency) ==
    IF frequency = PaymentFrequency.ZERO_COUPON THEN 0
    ELSE IF frequency = PaymentFrequency.ANNUAL THEN 12
    ELSE IF frequency = PaymentFrequency.SEMI_ANNUAL THEN 6
    ELSE IF frequency = PaymentFrequency.QUARTERLY THEN 3
    ELSE IF frequency = PaymentFrequency.MONTHLY THEN 1
    ELSE 0

RECURSIVE WalkBack(_, _, _)
\* while current > limit: current = current - relativedelta(months=months)
WalkBack(current, limit, months) ==
    IF current > limit THEN WalkBack(AddMonths(current, 0 - months), limit, months)
    ELSE current

RECURSIVE WalkForward(_, _, _, _, _)
\* while current <= end_date: the dates within [start_date, maturity_date]
\* are appended, and current moves on by one period.
WalkForward(current, start_date, end_date, maturity_date, months) ==
    IF current > end_date THEN {}
    ELSE (IF current >= start_date /\ current <= maturity_date THEN {current} ELSE {})
         \cup WalkForward(AddMonths(current, months), start_date, end_date,
                          maturity_date, months)

\* The date the forward walk of get_coupon_dates starts from.
FirstCouponFrom(maturity_date, start_date, months) ==
    IF WalkBack(maturity_date, start_date, months) < start_date
    THEN AddMonths(WalkBack(maturity_date, start_date, months), months)
    ELSE WalkBack(maturity_date, start_date, months)

\* get_coupon_dates: the dates of the returned list, which is ascending.
GetCouponDates(maturity_date, payment_frequency, start_date, end_date) ==
    IF GetMonthsPerPeriod(payment_frequency) = 0 THEN {}
    ELSE WalkForward(FirstCouponFrom(maturity_date, start_date,
                                     GetMonthsPerPeriod(payment_frequency)),
                     start_date, end_date, maturity_date,
                     GetMonthsPerPeriod(payment_frequency))

\* get_last_coupon_date
GetLastCouponDate(maturity_date, payment_frequency, reference_date) ==
    IF GetMonthsPerPeriod(payment_frequency) = 0 THEN None
    ELSE Some(WalkBack(maturity_date, reference_date,
                       GetMonthsPerPeriod(payment_frequency)))

\* days_30_360
Days30360(start, end) ==
    LET d1 == IF DayOf(start) < 30 THEN DayOf(start) ELSE 30
        d2 == IF d1 < 30 THEN DayOf(end)
              ELSE IF DayOf(end) < 30 THEN DayOf(end) ELSE 30
    IN 360 * (YearOf(end) - YearOf(start)) + 30 * (MonthOf(end) - MonthOf(start))
       + (d2 - d1)

\* calculate_accrued_interest_per_100, in 360ths: coupon_rate * days, which
\* the code divides by 360.0.
CalculateAccruedInterestPer100(bond, valuation_date) ==
    IF bond.payment_frequency = PaymentFrequency.ZERO_COUPON THEN 0
    ELSE IF valuation_date >= bond.maturity_date THEN 0
    ELSE IF GetLastCouponDate(bond.maturity_date, bond.payment_frequency,
                              valuation_date) = None THEN 0
    ELSE bond.coupon_rate
         * Days30360(GetLastCouponDate(bond.maturity_date, bond.payment_frequency,
                                       valuation_date)[1],
                     valuation_date)

\* (dirty_price / 100.0) * face_value * purchase_quantity for the clean price
\* `price` and an accrued interest given in 360ths; the bonds of the model
\* make the division exact.
DirtyValue(bond, price, accrued360) ==
    ((price * 360 + accrued360) * bond.face_value * bond.purchase_quantity) \div 36000

\* calculate_bond_value without a clean_price override
CalculateBondValue(bond, valuation_date) ==
    IF valuation_date < bond.purchase_date THEN 0
    ELSE IF valuation_date >= bond.maturity_date
    THEN bond.face_value * bond.purchase_quantity
    ELSE DirtyValue(bond,
                    IF bond.current_price # None THEN bond.current_price[1]
                    ELSE bond.purchase_price,
                    CalculateAccruedInterestPer100(bond, valuation_date))

\* The amount of one coupon of the bond.
CouponPerPeriod(bond) ==
    (bond.face_value * bond.coupon_rate * bond.purchase_quantity)
    \div (100 * bond.payment_frequency)

\* generate_coupon_payments: the dates of the (date, amount) pairs, each of
\* which carries CouponPerPeriod(bond).
GenerateCouponPayments(bond, start_date, end_date) ==
    IF bond.payment_frequency = PaymentFrequency.ZERO_COUPON THEN {}
    ELSE {d \in GetCouponDates(bond.maturity_date, bond.payment_frequency,
                               start_date, end_date) : d >= bond.purchase_date}

\* calculate_bond_cost_basis
CalculateBondCostBasis(bond) ==
    DirtyValue(bond, bond.purchase_price,
               CalculateAccruedInterestPer100(bond, bond.purchase_date))

(* ------------------- transaction-mode replay -------------------------- *)

\* The symbols whose action is REMOVE.
RemovedSymbols(handling) == {sym \in DOMAIN handling : handling[sym] = REMOVE}

\* dict.items() is walked in this order; the steps for different symbols
\* touch different entries, so only the order of appended events depends on it.
SymbolOrder == <<"A", "B", "CASH">>

RECURSIVE UniqueFrom(_, _, _)
UniqueFrom(frame, i, acc) ==
    IF i > Len(frame) THEN acc
    ELSE IF \E j \in 1..Len(acc) : acc[j] = frame[i].symbol
         THEN UniqueFrom(frame, i + 1, acc)
         ELSE UniqueFrom(frame, i + 1, Append(acc, frame[i].symbol))

\* frame['symbol'].unique(): the symbols in order of first appearance.
UniqueSymbols(frame) == UniqueFrom(frame, 1, <<>>)

\* symbols = [s for s in txns['symbol'].unique() if s not in removed_symbols]
TxnSymbols(txns, removed) ==
    SelectSeq(UniqueSymbols(txns), LAMBDA s : s \notin removed)

\* start_date = txns['datetime'].min().date()
StartDate(txns) == Min({DateOf(txns[i].datetime) : i \in Rows(txns)})

\* price_df.index after price_df[price_df.index.date >= start_date].
PriceIndex(cols, hist, start_date) ==
    {d \in UNION {DOMAIN hist[sym] : sym \in cols} : d >= start_date}

\* bond_start = min(b.purchase_date for b in self.bonds)
BondStart(bnds) == Min({bnds[i].purchase_date : i \in Rows(bnds)})

\* start_date once the bonds are taken in: the earlier of the first ledger
\* day and the first purchase of a bond.
StartDateWith(txns, bnds) ==
    IF Len(bnds) = 0 THEN StartDate(txns)
    ELSE IF Len(txns) = 0 THEN BondStart(bnds)
    ELSE IF StartDate(txns) <= BondStart(bnds) THEN StartDate(txns)
    ELSE BondStart(bnds)

\* bond_dates: each bond's purchase date, its maturity date when that is not
\* after end_date, and its coupon dates within [start_date, end_date].
BondDates(bnds, start_date, end_date) ==
    UNION {{bnds[i].purchase_date}
           \cup (IF bnds[i].maturity_date <= end_date THEN {bnds[i].maturity_date} ELSE {})
           \cup GenerateCouponPayments(bnds[i], start_date, end_date) : i \in Rows(bnds)}

\* all_dates: price days, transaction days and bond days within
\* [start_date, end_date], end_date being today.
AllDates(txns, price_index, start_date) ==
    {d \in price_index \cup {DateOf(txns[i].datetime) : i \in Rows(txns)}
           \cup BondDates(bonds, start_date, clock) :
        d >= start_date /\ d <= clock}

\* What the loop reads, given the symbol list, the columns of price_data and
\* start_date: the ledger, the handling, the price frame and the calendar.
ContextOf(txns, handling, hist, symbols, cols, start_date) ==
    [txns |-> txns,
     bonds |-> bonds,
     handling |-> handling,
     hist |-> hist,
     removed |-> RemovedSymbols(handling),
     initIdx |-> InitialDepositIndices(txns),
     looked |-> SeqToSet(symbols) \ {"CASH"},
     failed |-> SelectSeq(symbols, LAMBDA s : s # "CASH" /\ DOMAIN hist[s] = {}),
     cols |-> cols,
     tracked |-> cols \cap DOMAIN handling,
     start_date |-> start_date,
     price_df_empty |-> PriceIndex(cols, hist, start_date) = {},
     all_dates |-> SortedSeq(AllDates(txns, PriceIndex(cols, hist, start_date), start_date))]

\* The context of a ledger with the symbol list `symbols`: price_data has a
\* column for every listed symbol but 'CASH' whose history is not empty.
ContextFor(txns, handling, hist, symbols) ==
    ContextOf(txns, handling, hist, symbols,
              {sym \in SeqToSet(symbols) \ {"CASH"} : DOMAIN hist[sym] # {}},
              StartDateWith(txns, bonds))

ReplayContext(txns, handling, hist) ==
    ContextFor(txns, handling, hist, TxnSymbols(txns, RemovedSymbols(handling)))

\* The price frame without its forward fill.
PriceDfAtUnfilled(df, dt, start_date) == IF dt \in DOMAIN df THEN df[dt] ELSE NaN

\* price_df.at[dt, sym] after ffill() and reindex(all_dates, method='ffill'):
\* the close of the symbol's last price day in [start_date, dt], else NaN.
PriceDfAt(df, dt, start_date) ==
    IF {p \in DOMAIN df : p >= start_date /\ p <= dt} = {} THEN NaN
    ELSE df[Max({p \in DOMAIN df : p >= start_date /\ p <= dt})]

\* The row applied to cash with its fee left out.
TxnCashDeltaNoFee(txn, idx, initIdx) ==
    IF txn.side = "BUY" THEN 0 - txn.quantity * txn.price
    ELSE IF txn.side = "SELL" THEN txn.quantity * txn.price
    ELSE IF txn.side = "DEPOSIT" THEN (IF idx \notin initIdx THEN txn.quantity ELSE 0)
    ELSE IF txn.side = "WITHDRAW" THEN 0 - txn.quantity
    ELSE 0

\* One ledger row applied to the day's cash.
TxnCashDelta(txn, idx, initIdx) ==
    IF txn.side = "BUY" THEN 0 - (txn.quantity * txn.price + txn.fee)
    ELSE IF txn.side = "SELL" THEN txn.quantity * txn.price - txn.fee
    ELSE IF txn.side = "DEPOSIT" THEN (IF idx \notin initIdx THEN txn.quantity ELSE 0)
    ELSE IF txn.side = "WITHDRAW" THEN 0 - txn.quantity
    ELSE 0

\* The holdings with SELL rows left out.
TxnHoldingDeltaBuysOnly(txn) == IF txn.side = "BUY" THEN txn.quantity ELSE 0

\* One ledger row applied to the holdings.
TxnHoldingDelta(txn) ==
    IF txn.side = "BUY" THEN txn.quantity
    ELSE IF txn.side = "SELL" THEN 0 - txn.quantity
    ELSE 0

\* The rows the loop applies on day d: those of the day's group whose symbol
\* is not removed.
DayRows(txns, d, removed) ==
    {i \in Rows(txns) : DateOf(txns[i].datetime) = d /\ txns[i].symbol \notin removed}

\* The rows `rows` applied to cash and holdings; credited[i] lists the days
\* on which the quantity of deposit row i was added to current_cash.
ApplyRows(st, c, d, rows) ==
    [st EXCEPT
        !.cash = @ + SumFn([i \in Rows(c.txns) |-> TxnCashDelta(c.txns[i], i, c.initIdx)], rows),
        !.hold = [sym \in AllSymbols |->
                    @[sym] + SumFn([i \in Rows(c.txns) |-> TxnHoldingDelta(c.txns[i])],
                                   {i \in rows : c.txns[i].symbol = sym})],
        !.credited = [i \in Rows(c.txns) |->
                        IF /\ i \in rows
                           /\ c.txns[i].side = "DEPOSIT"
                           /\ TxnCashDelta(c.txns[i], i, c.initIdx) # 0
                        THEN Append(@[i], d) ELSE @[i]]]

\* (a) the day's transactions.
ApplyDayTxns(st, c, d) == ApplyRows(st, c, d, DayRows(c.txns, d, c.removed))

\* The loop without its memory of the symbols it has liquidated.
ToLiquidateAgain(st, c, d) ==
    {sym \in DOMAIN c.handling :
        /\ sym \notin c.removed
        /\ c.handling[sym] = LIQUIDATE
        /\ sym \in c.tracked
        /\ d > LastDate(c.hist[sym])
        /\ st.hold[sym] > 0}

\* The symbols the liquidation loop converts to cash on day d.
ToLiquidate(st, c, d) ==
    {sym \in DOMAIN c.handling :
        /\ sym \notin st.liquidated
        /\ sym \notin c.removed
        /\ c.handling[sym] = LIQUIDATE
        /\ sym \in c.tracked
        /\ d > LastDate(c.hist[sym])
        /\ st.hold[sym] > 0}

\* LiquidationEvent(date, symbol, price, quantity, cash_amount)
LiquidationEvent(date, sym, price, qty) ==
    [date |-> date, symbol |-> sym, price |-> price, quantity |-> qty,
     cash_amount |-> price * qty]

RECURSIVE EventsFor(_, _, _, _)
\* The events of the symbols of L, in the order of SymbolOrder from i on.
EventsFor(hold, hist, L, i) ==
    IF i > Len(SymbolOrder) THEN <<>>
    ELSE IF SymbolOrder[i] \in L
    THEN <<LiquidationEvent(LastDate(hist[SymbolOrder[i]]), SymbolOrder[i],
                            LastPrice(hist[SymbolOrder[i]]), hold[SymbolOrder[i]])>>
         \o EventsFor(hold, hist, L, i + 1)
    ELSE EventsFor(hold, hist, L, i + 1)

\* The symbols of L converted to cash at their last price; held[d] keeps the
\* holdings the day's liquidation found.
Liquidate(st, c, d, L) ==
    [st EXCEPT
        !.cash = @ + SumFn([sym \in AllSymbols |->
                              IF sym \in L THEN LastPrice(c.hist[sym]) * st.hold[sym]
                              ELSE 0], L),
        !.events = @ \o EventsFor(st.hold, c.hist, L, 1),
        !.hold = [sym \in AllSymbols |-> IF sym \in L THEN 0 ELSE @[sym]],
        !.held = Put(@, d, st.hold),
        !.liquidated = @ \cup L,
        !.liq_days = [sym \in AllSymbols |-> IF sym \in L THEN Append(@[sym], d) ELSE @[sym]]]

\* (b) stale-ticker liquidation.
ApplyLiquidation(st, c, d) == Liquidate(st, c, d, ToLiquidate(st, c, d))

\* The bond loop with no memory of the bonds it has paid for.
BuysBondAgain(st, bond) == TRUE

\* `if bond.id not in purchased_bonds`
BuysBond(st, bond) == bond.id \notin st.purchased

\* One bond's pass through the day's bond loop: its purchase the first time
\* the loop reaches it, the coupons generate_coupon_payments(bond, d, d)
\* returns, and its redemption; bond_cash lists what was moved, when and why.
ApplyBond(st, bond, d) ==
    IF d < bond.purchase_date THEN st
    ELSE LET buys == BuysBond(st, bond)
             coupons == IF GenerateCouponPayments(bond, d, d) = {} THEN 0
                        ELSE Cardinality(GenerateCouponPayments(bond, d, d))
                             * CouponPerPeriod(bond)
             redeems == d >= bond.maturity_date /\ bond.id \notin st.matured
         IN [st EXCEPT
                !.cash = @ - (IF buys THEN CalculateBondCostBasis(bond) ELSE 0)
                           + coupons
                           + (IF redeems THEN bond.face_value * bond.purchase_quantity
                              ELSE 0),
                !.cumulative_coupon = @ + coupons,
                !.cumulative_maturity_cash =
                    @ + (IF redeems THEN bond.face_value * bond.purchase_quantity ELSE 0),
                !.purchased = @ \cup {bond.id},
                !.matured = IF redeems THEN @ \cup {bond.id} ELSE @,
                !.bond_cash =
                    @ \o (IF buys
                          THEN <<[day |-> d, id |-> bond.id, kind |-> "purchase",
                                  amount |-> CalculateBondCostBasis(bond)]>>
                          ELSE <<>>)
                      \o (IF coupons > 0
                          THEN <<[day |-> d, id |-> bond.id, kind |-> "coupon",
                                  amount |-> coupons]>>
                          ELSE <<>>)
                      \o (IF redeems
                          THEN <<[day |-> d, id |-> bond.id, kind |-> "maturity",
                                  amount |-> bond.face_value * bond.purchase_quantity]>>
                          ELSE <<>>)]

RECURSIVE ApplyBondsFrom(_, _, _, _)
\* `for bond in self.bonds` from the i-th bond on.
ApplyBondsFrom(st, bnds, d, i) ==
    IF i > Len(bnds) THEN st
    ELSE ApplyBondsFrom(ApplyBond(st, bnds[i], d), bnds, d, i + 1)

\* (c) bond purchases, coupons and redemptions.
ApplyBonds(st, c, d) == ApplyBondsFrom(st, c.bonds, d, 1)

\* Whether the valuation of sym on day d takes the FREEZE branch.
FrozenAt(c, sym, d) ==
    /\ sym \in DOMAIN c.handling
    /\ c.handling[sym] = FREEZE
    /\ sym \in c.tracked
    /\ d > LastDate(c.hist[sym])

\* The holding of sym with its value 1 a share when it has no price column.
HoldingValuePriceless(st, c, sym, d) ==
    IF st.hold[sym] = 0 THEN 0
    ELSE IF sym \notin c.cols THEN st.hold[sym]
    ELSE IF FrozenAt(c, sym, d) THEN st.hold[sym] * LastPrice(c.hist[sym])
    ELSE IF PriceDfAt(c.hist[sym], d, c.start_date) = NaN THEN 0
    ELSE st.hold[sym] * PriceDfAt(c.hist[sym], d, c.start_date)

\* What the holding of sym adds to daily_value on day d.
HoldingValue(st, c, sym, d) ==
    IF st.hold[sym] = 0 \/ sym \notin c.cols THEN 0
    ELSE IF FrozenAt(c, sym, d) THEN st.hold[sym] * LastPrice(c.hist[sym])
    ELSE IF PriceDfAt(c.hist[sym], d, c.start_date) = NaN THEN 0
    ELSE st.hold[sym] * PriceDfAt(c.hist[sym], d, c.start_date)

\* price_df.at[dt, sym] raises KeyError when the filtered price frame kept its
\* columns but no row, so that it was never reindexed to all_dates.
ValuationRaises(st, c, d) ==
    /\ c.price_df_empty
    /\ \E sym \in c.cols : st.hold[sym] # 0 /\ ~FrozenAt(c, sym, d)

\* The bond's part of daily_value on day d: nothing before its purchase and
\* once it is in matured_bonds.
BondValueAt(st, bond, d) ==
    IF d < bond.purchase_date \/ bond.id \in st.matured THEN 0
    ELSE CalculateBondValue(bond, d)

\* The day's entries of the histories; value[d][sym] is what sym added to NAV.
Record(st, d, value) ==
    [st EXCEPT
        !.nav = Put(@, d, st.cash + SumFn(value, AllSymbols)
                          + SumFn([i \in Rows(bonds) |-> BondValueAt(st, bonds[i], d)],
                                  Rows(bonds))),
        !.cash_history = Put(@, d, st.cash),
        !.coupon_history = Put(@, d, st.cumulative_coupon),
        !.maturity_cash_history = Put(@, d, st.cumulative_maturity_cash),
        !.value = Put(@, d, value)]

\* (d) daily NAV.
RecordDay(st, c, d) ==
    IF ValuationRaises(st, c, d) THEN [st EXCEPT !.raised = TRUE]
    ELSE Record(st, d, [sym \in AllSymbols |-> HoldingValue(st, c, sym, d)])

\* One pass of `for dt in all_dates`.
ReplayDay(st, c, d) ==
    RecordDay(ApplyBonds(ApplyLiquidation(ApplyDayTxns(st, c, d), c, d), c, d), c, d)

RECURSIVE ReplayFrom(_, _, _)
\* The loop over all_dates from its i-th day on; an exception ends it.
ReplayFrom(st, c, i) ==
    IF i > Len(c.all_dates) \/ st.raised THEN st
    ELSE ReplayFrom(ReplayDay(st, c, c.all_dates[i]), c, i + 1)

\* The replay's locals as the loop starts.
ReplayStart(c) ==
    [cash |-> InitialCashOf(c.txns, c.initIdx),
     initial_cash |-> InitialCashOf(c.txns, c.initIdx),
     hold |-> [sym \in AllSymbols |-> 0],
     liquidated |-> {},
     events |-> <<>>,
     raised |-> FALSE,
     cumulative_coupon |-> 0,
     cumulative_maturity_cash |-> 0,
     purchased |-> {},
     matured |-> {},
     bond_cash |-> <<>>,
     nav |-> EmptySeries,
     cash_history |-> EmptySeries,
     coupon_history |-> EmptySeries,
     maturity_cash_history |-> EmptySeries,
     value |-> <<>>,
     held |-> <<>>,
     liq_days |-> [sym \in AllSymbols |-> <<>>],
     credited |-> [i \in Rows(c.txns) |-> <<>>]]

\* No run of the impl yet, or a run that returned before it read anything.
NoRun == [end |-> "none", failed |-> <<>>, looked |-> {}, suggested_set |-> FALSE,
          loop |-> FALSE, st |-> <<>>, c |-> <<>>]

\* A run that ended in an early `return pd.Series()`.
EarlyReturn(c) ==
    [end |-> "empty", failed |-> c.failed, looked |-> c.looked,
     suggested_set |-> Len(c.txns) > 0 /\ c.initIdx = {}, loop |-> FALSE,
     st |-> <<>>, c |-> c]

\* A run whose loop ended with the locals st.
LoopReturn(c, st) ==
    [end |-> IF st.raised THEN "raised" ELSE "series", failed |-> c.failed,
     looked |-> c.looked, suggested_set |-> Len(c.txns) > 0 /\ c.initIdx = {},
     loop |-> TRUE,
     st |-> st, c |-> c]

TransactionRun(c) ==
    IF (c.cols = {} /\ Len(c.bonds) = 0) \/ c.all_dates = <<>> THEN EarlyReturn(c)
    ELSE LoopReturn(c, ReplayFrom(ReplayStart(c), c, 1))

\* The outcome of one run of the TRANSACTION branch of
\* _calculate_nav_history_impl: how it ended ("empty": an early
\* `return pd.Series()`, "series": the loop ran to its end, "raised"), what it
\* appended to failed_tickers, which symbols it looked up, whether it assigned
\* suggested_initial_deposit, and the loop's locals.
TransactionImpl(txns, handling, hist) ==
    IF Len(txns) = 0 /\ Len(bonds) = 0 THEN [NoRun EXCEPT !.end = "empty"]
    ELSE TransactionRun(ReplayContext(txns, handling, hist))

(* --------------------- snapshot-mode valuation ------------------------ *)

\* quantities[sym] = float(row['quantity']): the last row of a symbol wins.
Quantities(positions, looked) ==
    [sym \in looked |->
        positions[Max({i \in Rows(positions) : positions[i].symbol = sym})].quantity]

\* What the snapshot branch reads, given the symbols it looks up (those not
\* removed) and the columns of price_data; `handled` are the symbols the
\* stale-handling loop does not skip.
SnapContextOf(positions, handling, hist, looked, cols) ==
    [handling |-> handling,
     hist |-> hist,
     looked |-> looked,
     failed |-> SelectSeq(UniqueSymbols(positions),
                          LAMBDA s : s \in looked /\ DOMAIN hist[s] = {}),
     cols |-> cols,
     index |-> UNION {DOMAIN hist[sym] : sym \in cols},
     quantities |-> Quantities(positions, looked),
     handled |-> {sym \in DOMAIN handling \cap cols :
                    Quantities(positions, looked)[sym] # 0}]

SnapContextFor(positions, handling, hist, looked) ==
    SnapContextOf(positions, handling, hist, looked,
                  {sym \in looked : DOMAIN hist[sym] # {}})

SnapContext(positions, handling, hist) ==
    SnapContextFor(positions, handling, hist,
                   SeqToSet(UniqueSymbols(positions)) \ RemovedSymbols(handling))

\* price_df[sym] at day d after ffill().bfill() over the joint index.
SnapPriceAt(df, d) ==
    IF {p \in DOMAIN df : p <= d} # {} THEN df[Max({p \in DOMAIN df : p <= d})]
    ELSE df[Min(DOMAIN df)]

\* The symbols the stale-handling loop liquidates.
SnapLiquidated(c) == {sym \in c.handled : c.handling[sym] = LIQUIDATE}

\* liquidated_cash.get(d, 0.0)
LiquidatedCash(c, d) ==
    SumFn([sym \in AllSymbols |->
              IF sym \in SnapLiquidated(c) /\ d > LastDate(c.hist[sym])
              THEN LastPrice(c.hist[sym]) * c.quantities[sym] ELSE 0],
          SnapLiquidated(c))

\* What `nav += price_df[sym] * qty` adds for sym on day d: nothing for a
\* symbol whose quantity the LIQUIDATE branch cleared, the last price after
\* the last valid date under FREEZE.
SnapHoldingValue(c, sym, d) ==
    IF sym \notin c.cols \/ sym \in SnapLiquidated(c) THEN 0
    ELSE IF c.quantities[sym] <= 0 THEN 0
    ELSE IF sym \in c.handled /\ c.handling[sym] = FREEZE /\ d > LastDate(c.hist[sym])
    THEN LastPrice(c.hist[sym]) * c.quantities[sym]
    ELSE SnapPriceAt(c.hist[sym], d) * c.quantities[sym]

\* The locals of the snapshot branch as it returns the NAV built from `value`.
SnapLocals(c, value) ==
    [nav |-> [d \in c.index |-> SumFn(value[d], AllSymbols) + LiquidatedCash(c, d)],
     events |-> EventsFor(c.quantities, c.hist, SnapLiquidated(c), 1),
     raised |-> FALSE,
     value |-> value,
     liquidated_cash |-> [d \in c.index |-> LiquidatedCash(c, d)]]

SnapshotRun(c) ==
    IF c.cols = {}
    THEN [end |-> "empty", failed |-> c.failed, looked |-> c.looked,
          suggested_set |-> FALSE, loop |-> FALSE, st |-> <<>>, c |-> c]
    ELSE [end |-> "series", failed |-> c.failed, looked |-> c.looked,
          suggested_set |-> FALSE, loop |-> TRUE, c |-> c,
          st |-> SnapLocals(c, [d \in c.index |->
                                  [sym \in AllSymbols |-> SnapHoldingValue(c, sym, d)]])]

\* The outcome of one run of the SNAPSHOT branch of _calculate_nav_history_impl.
SnapshotImpl(positions, handling, hist) ==
    IF Len(positions) = 0 THEN [NoRun EXCEPT !.end = "empty"]
    ELSE SnapshotRun(SnapContext(positions, handling, hist))

(* ------------------------------ state --------------------------------- *)

VARIABLES
    portfolio_type,             \* self.portfolio.type
    transactions,               \* self.transactions, sorted by datetime
    positions,                  \* self.positions
    provider,                   \* what prices.get_price_history(sym) returns
    price_cache,                \* self._price_cache
    stale_ticker_handling,      \* self.stale_ticker_handling
    nav_cache,                  \* self._nav_cache
    base_data_cache,            \* self._base_data_cache
    failed_tickers,             \* self.failed_tickers
    suggested_initial_deposit,  \* self.suggested_initial_deposit
    cash_history,               \* self.cash_history
    liquidation_events,         \* self.liquidation_events
    bond_coupon_history,        \* self.bond_coupon_history
    bond_maturity_cash,         \* self.bond_maturity_cash
    stale_tickers,              \* self.stale_tickers
    price_cache_set,            \* whether set_price_cache has been called
    provider_calls,             \* symbols the engine asked the provider for
    replays,                    \* runs of _calculate_nav_history_impl so far
    run,                        \* the last run of the impl: its outcome and locals
    last_call,                  \* the last call that ended, and how it ended
    threads,                    \* where each thread is in the call it is making
    first_call,                 \* the engine's first call: whether it ran alone
    inputs,                     \* the arguments a module-level function is called with
    rate_limit_store,           \* endpoints.rate_limit_store
    rate_limit_lock,            \* endpoints.rate_limit_lock: the thread that holds it
    wall_clock,                 \* datetime.now(), in seconds
    requests,                   \* where each thread is in check_rate_limit
    answered,                   \* the calls of check_rate_limit that returned, per IP
    stream_request,             \* the PortfolioFullRequest of a stream
    stream,                     \* where event_generator is, and its locals
    emitted,                    \* the events the stream has emitted
    csv_file,                   \* the symbol's CSV in prices_dir: its mtime and rows
    metadata_file,              \* the symbol's last_updated in metadata.json
    metadata_lock,              \* metadata.json.lock: the thread that holds it
    callers,                    \* where each caller of get_or_refresh is
    fetched                     \* the callers that invoked fetch_func, in order

\* The engine and what is recorded of its runs.
engine == <<portfolio_type, transactions, positions, provider, price_cache,
            stale_ticker_handling, nav_cache, base_data_cache, failed_tickers,
            suggested_initial_deposit, cash_history, liquidation_events,
            bonds, bond_coupon_history, bond_maturity_cash, stale_tickers,
            clock, price_cache_set, provider_calls, replays, run>>

\* What lives outside the engine.
\* The rate limiter, less the clock.
limiter == <<rate_limit_store, rate_limit_lock, requests, answered>>

\* A portfolio-full stream.
streaming == <<stream_request, stream, emitted>>

\* The price cache on disk and its callers.
caching == <<csv_file, metadata_file, metadata_lock, callers, fetched>>

outside == <<inputs, wall_clock, limiter, streaming, caching>>

vars == <<engine, last_call, threads, first_call, outside>>

\* The engine's fields as one record, for the operators below.
Self ==
    [portfolio_type |-> portfolio_type,
     transactions |-> transactions,
     positions |-> positions,
     price_cache |-> price_cache,
     stale_ticker_handling |-> stale_ticker_handling,
     nav_cache |-> nav_cache,
     base_data_cache |-> base_data_cache,
     failed_tickers |-> failed_tickers,
     suggested_initial_deposit |-> suggested_initial_deposit,
     cash_history |-> cash_history,
     liquidation_events |-> liquidation_events,
     bonds |-> bonds,
     bond_coupon_history |-> bond_coupon_history,
     bond_maturity_cash |-> bond_maturity_cash,
     stale_tickers |-> stale_tickers,
     price_cache_set |-> price_cache_set,
     provider_calls |-> provider_calls,
     replays |-> replays,
     run |-> run]

\* The engine's fields become those of the record e.
Becomes(e) ==
    /\ price_cache' = e.price_cache
    /\ stale_ticker_handling' = e.stale_ticker_handling
    /\ nav_cache' = e.nav_cache
    /\ base_data_cache' = e.base_data_cache
    /\ failed_tickers' = e.failed_tickers
    /\ suggested_initial_deposit' = e.suggested_initial_deposit
    /\ cash_history' = e.cash_history
    /\ liquidation_events' = e.liquidation_events
    /\ bond_coupon_history' = e.bond_coupon_history
    /\ bond_maturity_cash' = e.bond_maturity_cash
    /\ stale_tickers' = e.stale_tickers
    /\ price_cache_set' = e.price_cache_set
    /\ provider_calls' = e.provider_calls
    /\ replays' = e.replays
    /\ run' = e.run
    /\ UNCHANGED <<portfolio_type, transactions, positions, provider, bonds, clock>>

\* PortfolioEngine._get_price_history for every symbol: the cached frame, or
\* the provider's when the symbol is not in the cache.
Histories(cache) ==
    [sym \in AllSymbols |->
        IF sym \in DOMAIN cache THEN cache[sym] ELSE provider[sym]]

\* self._price_cache after _get_price_history was called for the symbols of S.
CacheAfterLookup(cache, S) ==
    [sym \in DOMAIN cache \cup S |->
        IF sym \in DOMAIN cache THEN cache[sym] ELSE provider[sym]]

(* --------------------------- engine calls ----------------------------- *)

\* The run of _calculate_nav_history_impl on engine e.
Impl(e) ==
    IF e.portfolio_type = SNAPSHOT
    THEN SnapshotImpl(e.positions, e.stale_ticker_handling, Histories(e.price_cache))
    ELSE TransactionImpl(e.transactions, e.stale_ticker_handling, Histories(e.price_cache))

\* The Series object the run `out` returns: a new object each run.
ImplResult(e, out) ==
    [id |-> e.replays + 1,
     series |-> IF out.end = "series" THEN out.st.nav ELSE EmptySeries]

\* The engine after the run `out` of the impl: what the run appended and
\* assigned on its way.
AfterImpl(e, out) ==
    [e EXCEPT
        !.price_cache = CacheAfterLookup(@, out.looked),
        !.provider_calls = @ \cup (out.looked \ DOMAIN e.price_cache),
        !.failed_tickers = @ \o out.failed,
        !.suggested_initial_deposit =
            IF out.suggested_set THEN CalculateSuggestedDeposit(e.transactions) ELSE @,
        !.liquidation_events = IF out.loop THEN @ \o out.st.events ELSE @,
        !.cash_history =
            IF out.end = "series" /\ e.portfolio_type = TRANSACTION
            THEN out.st.cash_history ELSE @,
        !.bond_coupon_history =
            IF out.end = "series" /\ e.portfolio_type = TRANSACTION
            THEN out.st.coupon_history ELSE @,
        !.bond_maturity_cash =
            IF out.end = "series" /\ e.portfolio_type = TRANSACTION
            THEN out.st.maturity_cash_history ELSE @,
        !.replays = @ + 1,
        !.run = out]

\* `if self._nav_cache is not None`
NavCachedNever(e) == FALSE
NavCached(e) == e.nav_cache # None

\* self._nav_cache = result
StoreNavNowhere(e, result) == e
StoreNav(e, result) == [e EXCEPT !.nav_cache = Some(result)]

\* calculate_nav_history when nothing is memoized: the impl runs, and its
\* result is memoized unless it raised.
NavMiss(e, out) ==
    [eng |-> IF out.end = "raised" THEN AfterImpl(e, out)
             ELSE StoreNav(AfterImpl(e, out), ImplResult(e, out)),
     raised |-> out.end = "raised",
     result |-> IF out.end = "raised" THEN <<>> ELSE ImplResult(e, out),
     replayed |-> TRUE]

\* PortfolioEngine.calculate_nav_history on engine e: the engine afterwards,
\* whether the call raised, the Series it returned, whether it ran the impl.
NavCall(e) ==
    IF NavCached(e)
    THEN [eng |-> e, raised |-> FALSE, result |-> e.nav_cache[1], replayed |-> FALSE]
    ELSE NavMiss(e, Impl(e))

\* The BUY/SELL quantities of the ledger's rows of sym, summed.
LedgerQuantity(txns, sym) ==
    SumFn([i \in Rows(txns) |-> TxnHoldingDelta(txns[i])],
          {i \in Rows(txns) : txns[i].symbol = sym})

\* PortfolioEngine._get_current_holdings without bonds: {symbol: quantity},
\* entries of quantity 0 dropped.  It reads the whole frame whatever the dates
\* and the stale-ticker handling.
CurrentHoldings(e) ==
    IF e.portfolio_type = SNAPSHOT
    THEN [sym \in {s \in SeqToSet(UniqueSymbols(e.positions)) :
                     Quantities(e.positions, {s})[s] # 0} |->
             Quantities(e.positions, {sym})[sym]]
    ELSE [sym \in {s \in {e.transactions[i].symbol : i \in TradeRows(e.transactions)} :
                     LedgerQuantity(e.transactions, s) # 0} |->
             LedgerQuantity(e.transactions, sym)]

\* PortfolioEngine._get_current_prices
CurrentPrices(holdings, hist) ==
    [sym \in {s \in DOMAIN holdings : DOMAIN hist[s] # {}} |-> LastPrice(hist[sym])]

\* The bundle _prepare_base_data builds around nav (returns, weights and the
\* price frame derive from these).
BaseData(e, nav) ==
    IF nav.series = EmptySeries
    THEN [nav |-> nav, current_holdings |-> <<>>, current_prices |-> <<>>]
    ELSE [nav |-> nav, current_holdings |-> CurrentHoldings(e),
          current_prices |-> CurrentPrices(CurrentHoldings(e), Histories(e.price_cache))]

\* self._base_data_cache = {...}, after the price lookups for the holdings.
StoreBase(e, nav) ==
    [e EXCEPT
        !.price_cache = IF nav.series = EmptySeries THEN @
                        ELSE CacheAfterLookup(@, DOMAIN CurrentHoldings(e)),
        !.provider_calls = IF nav.series = EmptySeries THEN @
                           ELSE @ \cup (DOMAIN CurrentHoldings(e) \ DOMAIN e.price_cache),
        !.base_data_cache = Some(BaseData(e, nav))]

\* _prepare_base_data when no bundle is cached, `call` being its call of
\* calculate_nav_history.
PrepareMiss(call) ==
    IF call.raised THEN call
    ELSE [call EXCEPT !.eng = StoreBase(call.eng, call.result)]

\* PortfolioEngine._prepare_base_data, as the call of the NAV it rests on.
PrepareBaseData(e) ==
    IF e.base_data_cache # None
    THEN [eng |-> e, raised |-> FALSE, result |-> e.base_data_cache[1].nav,
          replayed |-> FALSE]
    ELSE PrepareMiss(NavCall(e))

\* PortfolioEngine.set_stale_ticker_handling
AfterSetHandlingKeepsNav(e, handling) ==
    [e EXCEPT !.stale_ticker_handling = handling, !.liquidation_events = <<>>]
AfterSetHandling(e, handling) ==
    [e EXCEPT
        !.stale_ticker_handling = handling,
        !.nav_cache = None,
        !.base_data_cache = None,
        !.liquidation_events = <<>>]

\* The call `op`, made while no other call is in progress, ends as `call`
\* says; result is the Series the call returned or computed its figures from.
Returns(op, call) ==
    /\ Becomes(call.eng)
    /\ last_call' = [op |-> op, raised |-> call.raised, result |-> call.result,
                     replayed |-> call.replayed]
    /\ UNCHANGED <<threads, first_call, outside>>

\* A call that would run the impl is made only while the model's cap on the
\* number of runs allows it.
MayCall == nav_cache = None => replays < MaxReplays

CalculateNavHistory ==
    /\ MayCall
    /\ Returns("calculate_nav_history", NavCall(Self))

GetBasicIndicators ==
    /\ MayCall
    /\ Returns("get_basic_indicators", NavCall(Self))

GetIndicators ==
    /\ MayCall
    /\ Returns("get_indicators", PrepareBaseData(Self))

GetAllIndicators ==
    /\ MayCall
    /\ Returns("get_all_indicators", PrepareBaseData(Self))

SetStaleTickerHandling(handling) ==
    Returns("set_stale_ticker_handling",
            [eng |-> AfterSetHandling(Self, handling), raised |-> FALSE,
             result |-> <<>>, replayed |-> FALSE])

\* PortfolioEngine.set_price_cache; provider_calls counts from here on.
AfterSetPriceCache(e, cache) ==
    [e EXCEPT !.price_cache = cache, !.price_cache_set = TRUE, !.provider_calls = {}]

SetPriceCache(cache) ==
    Returns("set_price_cache",
            [eng |-> AfterSetPriceCache(Self, cache), raised |-> FALSE,
             result |-> <<>>, replayed |-> FALSE])

\* The frame detect_stale_tickers reads.
DetectFrame(e) == IF e.portfolio_type = SNAPSHOT THEN e.positions ELSE e.transactions

\* symbols = [s for s in frame['symbol'].unique() if s != 'CASH']
DetectSymbols(e) == SelectSeq(UniqueSymbols(DetectFrame(e)), LAMBDA s : s # "CASH")

\* quantities.get(sym, 0.0): the symbol's last position row, or the net of
\* its BUY and SELL rows when that is positive.
DetectQuantity(e, sym) ==
    IF e.portfolio_type = SNAPSHOT THEN Quantities(e.positions, {sym})[sym]
    ELSE IF LedgerQuantity(e.transactions, sym) > 0
    THEN LedgerQuantity(e.transactions, sym) ELSE 0

\* StaleTicker(symbol, last_date, last_price, quantity, market_value)
StaleTicker(sym, df, qty) ==
    [symbol |-> sym, last_date |-> LastDate(df), last_price |-> LastPrice(df),
     quantity |-> qty, market_value |-> LastPrice(df) * qty]

RECURSIVE StaleListFrom(_, _, _, _, _)
\* stale_list: the symbols with data whose last date is before latest_date,
\* in the order of `symbols` from the i-th on.
StaleListFrom(e, hist, symbols, latest_date, i) ==
    IF i > Len(symbols) THEN <<>>
    ELSE (IF DOMAIN hist[symbols[i]] # {} /\ LastDate(hist[symbols[i]]) < latest_date
          THEN <<StaleTicker(symbols[i], hist[symbols[i]], DetectQuantity(e, symbols[i]))>>
          ELSE <<>>)
         \o StaleListFrom(e, hist, symbols, latest_date, i + 1)

\* PortfolioEngine.detect_stale_tickers on engine e with the histories hist:
\* every symbol but 'CASH' is looked up; the list is stored unless the call
\* returns early with [].
DetectStaleTickersCall(e, hist, symbols) ==
    IF \A i \in Rows(symbols) : DOMAIN hist[symbols[i]] = {}
    THEN [eng |-> [e EXCEPT !.price_cache = CacheAfterLookup(@, SeqToSet(symbols)),
                            !.provider_calls = @ \cup (SeqToSet(symbols) \ DOMAIN e.price_cache)],
          raised |-> FALSE, result |-> <<>>, replayed |-> FALSE]
    ELSE [eng |-> [e EXCEPT
                     !.price_cache = CacheAfterLookup(@, SeqToSet(symbols)),
                     !.provider_calls = @ \cup (SeqToSet(symbols) \ DOMAIN e.price_cache),
                     !.stale_tickers =
                         StaleListFrom(e, hist, symbols,
                                       Max({LastDate(hist[symbols[i]]) :
                                              i \in {j \in Rows(symbols) :
                                                        DOMAIN hist[symbols[j]] # {}}}),
                                       1)],
          raised |-> FALSE,
          result |-> StaleListFrom(e, hist, symbols,
                                   Max({LastDate(hist[symbols[i]]) :
                                          i \in {j \in Rows(symbols) :
                                                    DOMAIN hist[symbols[j]] # {}}}),
                                   1),
          replayed |-> FALSE]

DetectStaleTickers ==
    Returns("detect_stale_tickers",
            DetectStaleTickersCall(Self, Histories(price_cache), DetectSymbols(Self)))

(* ----------------------- calls made by threads ------------------------ *)

Threads == 1..MaxThreads

IndicatorCalls == {"calculate_nav_history", "get_basic_indicators",
                   "get_indicators", "get_all_indicators"}

\* The calls that go through _prepare_base_data.
UsesBaseData(op) == op \in {"get_indicators", "get_all_indicators"}

Idle == [pc |-> "idle", op |-> "", nav |-> <<>>, replayed |-> FALSE]

\* Thread t's call ends.
Leaves(t, raised, result, replayed) ==
    /\ threads' = [threads EXCEPT ![t] = Idle]
    /\ last_call' = [op |-> threads[t].op, raised |-> raised, result |-> result,
                     replayed |-> replayed]
    /\ first_call' = IF first_call # "running" THEN first_call
                     ELSE IF raised THEN "raised" ELSE "returned"
    /\ UNCHANGED outside

\* Thread t moves on within its call.
Goes(t, pc, nav, replayed) ==
    /\ threads' = [threads EXCEPT ![t] = [@ EXCEPT !.pc = pc, !.nav = nav,
                                                   !.replayed = replayed]]
    /\ UNCHANGED <<last_call, first_call, outside>>

\* Thread t calls op.
Enter(t, op) ==
    /\ threads[t].pc = "idle"
    /\ threads' = [threads EXCEPT ![t] =
                     [Idle EXCEPT !.op = op,
                                  !.pc = IF UsesBaseData(op) THEN "base_check"
                                         ELSE "nav_check"]]
    /\ first_call' = IF first_call = "none" THEN "running"
                     ELSE IF first_call = "running" THEN "overlapped"
                     ELSE first_call
    /\ UNCHANGED <<engine, last_call, outside>>

\* `if self._base_data_cache is not None: return self._base_data_cache`
BaseCheck(t) ==
    /\ threads[t].pc = "base_check"
    /\ UNCHANGED engine
    /\ IF base_data_cache # None
       THEN Leaves(t, FALSE, base_data_cache[1].nav, FALSE)
       ELSE Goes(t, "nav_check", <<>>, FALSE)

\* `if self._nav_cache is not None: return self._nav_cache`
NavCheck(t) ==
    /\ threads[t].pc = "nav_check"
    /\ UNCHANGED engine
    /\ IF ~NavCached(Self) THEN Goes(t, "impl", <<>>, FALSE)
       ELSE IF UsesBaseData(threads[t].op) THEN Goes(t, "base_store", nav_cache[1], FALSE)
       ELSE Leaves(t, FALSE, nav_cache[1], FALSE)

\* Thread t's run of the impl ended as `out`.
Ran(t, out) ==
    /\ Becomes(AfterImpl(Self, out))
    /\ IF out.end = "raised" THEN Leaves(t, TRUE, <<>>, TRUE)
       ELSE Goes(t, "nav_store", ImplResult(Self, out), TRUE)

\* `result = self._calculate_nav_history_impl()`; the run is taken as one
\* step, which leaves the number of runs as the interleaving makes it.
RunImpl(t) ==
    /\ threads[t].pc = "impl"
    /\ replays < MaxReplays
    /\ Ran(t, Impl(Self))

\* `self._nav_cache = result`
NavStore(t) ==
    /\ threads[t].pc = "nav_store"
    /\ Becomes(StoreNav(Self, threads[t].nav))
    /\ IF UsesBaseData(threads[t].op)
       THEN Goes(t, "base_store", threads[t].nav, threads[t].replayed)
       ELSE Leaves(t, FALSE, threads[t].nav, threads[t].replayed)

\* `self._base_data_cache = {...}; return self._base_data_cache`
BaseStore(t) ==
    /\ threads[t].pc = "base_store"
    /\ Becomes(StoreBase(Self, threads[t].nav))
    /\ Leaves(t, FALSE, threads[t].nav, threads[t].replayed)

(* ------------------------------ inputs -------------------------------- *)

\* The provider's closes: A rises by 1 a day from 10, B by 2 a day from 20.
CloseOn(sym, d) == IF sym = "A" THEN 10 + d ELSE 20 + 2 * d

\* A price history with a row for every day first .. final.
History(sym, first, final) == [d \in first..final |-> CloseOn(sym, d)]

NoHistory == <<>>

\* The provider with the given histories of A and B; it has nothing for 'CASH'.
Provider(histA, histB) ==
    [sym \in AllSymbols |->
        IF sym = "A" THEN histA ELSE IF sym = "B" THEN histB ELSE NoHistory]

Txn(datetime, symbol, side, quantity, price, fee) ==
    [datetime |-> datetime, symbol |-> symbol, side |-> side,
     quantity |-> quantity, price |-> price, fee |-> fee]

Position(symbol, quantity) == [symbol |-> symbol, quantity |-> quantity]

\* The rows of R that may follow the frame l in datetime order.
Following(R, l) == {y \in R : Len(l) = 0 \/ y.datetime >= l[Len(l)].datetime}

RECURSIVE LedgersOfLen(_, _)
\* The frames of exactly n rows of R in ascending datetime order, ties in
\* either order: what sort_values('datetime') can leave in self.transactions.
LedgersOfLen(R, n) ==
    IF n = 0 THEN {<<>>}
    ELSE UNION {{Append(l, r) : r \in Following(R, l)} : l \in LedgersOfLen(R, n - 1)}

SortedLedgers(R, n) == UNION {LedgersOfLen(R, k) : k \in 0..n}

\* The position frames of at most n rows of R, in any order.
Snapshots(R, n) == UNION {[1..k -> R] : k \in 0..n}

\* Midnight of day d.
Midnight(d) == d * TicksPerDay

\* Ledger rows dated at midnight of any day: trades of A with and without a
\* fee, and cash rows that carry a fee.
DayRowsIn ==
    {Txn(Midnight(d), "A", "BUY", q, 50, fee) : d \in 0..MaxDay, q \in {1, 5}, fee \in {0, 1}}
    \cup
    {Txn(Midnight(d), "A", "SELL", 1, 50, 1) : d \in 0..MaxDay}
    \cup
    {Txn(Midnight(d), "CASH", side, 100, 1, 1) : d \in 0..MaxDay, side \in {"DEPOSIT", "WITHDRAW"}}

\* Buys and deposits dated at any tick of the first two days.
ClockRowsIn ==
    {Txn(t, "A", "BUY", 1, 50, 0) : t \in 0..(2 * TicksPerDay - 1)}
    \cup
    {Txn(t, "CASH", "DEPOSIT", 100, 1, 0) : t \in 0..(2 * TicksPerDay - 1)}

\* Trades of one share of A or B at midnight of any day.
StaleRowsIn ==
    {Txn(Midnight(d), "A", side, 1, 10, 0) : d \in 0..MaxDay, side \in {"BUY", "SELL"}}
    \cup
    {Txn(Midnight(d), "B", "BUY", 1, 20, 0) : d \in 0..MaxDay}

\* Position rows of A and B.
PositionsIn == {Position(sym, q) : sym \in StockSymbols, q \in {0, 1, 2}}

\* The handlings the caller sets: an action for A, or LIQUIDATE for both.
HandlingsIn ==
    {<<>>}
    \cup {[sym \in {"A"} |-> a] : a \in StaleTickerAction}
    \cup {[sym \in StockSymbols |-> LIQUIDATE]}

\* A's history ends on any day up to today, or the provider has none.
HistoriesOfA == {History("A", 0, k) : k \in 0..Today} \cup {NoHistory}

\* PortfolioEngine.__init__ for a portfolio with the bonds bnds, built while
\* the clock shows the date `now`.
EngineAt(type, txns, pos, bnds, prov, now) ==
    /\ portfolio_type = type
    /\ transactions = txns
    /\ positions = pos
    /\ provider = prov
    /\ price_cache = <<>>
    /\ stale_ticker_handling = <<>>
    /\ nav_cache = None
    /\ base_data_cache = None
    /\ failed_tickers = <<>>
    /\ suggested_initial_deposit = 0
    /\ cash_history = EmptySeries
    /\ liquidation_events = <<>>
    /\ bonds = bnds
    /\ bond_coupon_history = EmptySeries
    /\ bond_maturity_cash = EmptySeries
    /\ stale_tickers = <<>>
    /\ clock = now
    /\ price_cache_set = FALSE
    /\ provider_calls = {}
    /\ replays = 0
    /\ run = NoRun
    /\ last_call = [op |-> "__init__", raised |-> FALSE, result |-> <<>>,
                    replayed |-> FALSE]
    /\ threads = [t \in Threads |-> Idle]
    /\ first_call = "none"

\* An engine is built and no module-level function has been given arguments.
\* The rate limiter once endpoints.py is imported.
RateLimitAtImport ==
    /\ rate_limit_store = [ip \in {"10.0.0.1", "10.0.0.2"} |-> <<>>]
    /\ rate_limit_lock = <<>>
    /\ wall_clock = 0
    /\ requests = [t \in 1..MaxThreads |-> [pc |-> "idle", client_ip |-> "", now |-> 0]]
    /\ answered = [ip \in {"10.0.0.1", "10.0.0.2"} |-> <<>>]

\* No request is being streamed.
NoStream ==
    /\ stream_request = <<>>
    /\ stream = [pc |-> "closed", data_line |-> FALSE, symbols |-> {}]
    /\ emitted = <<>>

\* No price cache on disk and nobody asking for one.
NoCacheManager ==
    /\ csv_file = <<>>
    /\ metadata_file = <<>>
    /\ metadata_lock = <<>>
    /\ callers = [t \in 1..MaxThreads |-> [pc |-> "idle", locked |-> FALSE, migrated |-> <<>>,
                                          data |-> <<>>, result |-> <<>>]]
    /\ fetched = <<>>

\* The API with no request under way.
ServerAtImport == RateLimitAtImport /\ NoStream /\ NoCacheManager

InitEngineAt(type, txns, pos, bnds, prov, now) ==
    /\ EngineAt(type, txns, pos, bnds, prov, now)
    /\ inputs = <<>>
    /\ ServerAtImport

\* PortfolioEngine.__init__ for a portfolio without bonds.
InitEngine(type, txns, pos, prov) == InitEngineAt(type, txns, pos, <<>>, prov, Today)

(* -------- specification: a portfolio valued under stale handling ------- *)

InitTxn ==
    \E txns \in SortedLedgers(StaleRowsIn, MaxStaleTxns) :
    \E histA \in HistoriesOfA :
        InitEngine(TRANSACTION, txns, <<>>, Provider(histA, History("B", 0, Today)))

InitSnap ==
    \E pos \in Snapshots(PositionsIn, MaxTxns) :
    \E histA \in HistoriesOfA :
        InitEngine(SNAPSHOT, <<>>, pos, Provider(histA, History("B", 0, Today)))

Init == InitTxn \/ InitSnap

\* calculate_portfolio_full_stream applies the handling it was given to the
\* engine it has just created, before it values the portfolio.
ApplyHandling(handling) ==
    /\ replays = 0
    /\ stale_ticker_handling = <<>>
    /\ SetStaleTickerHandling(handling)

Next ==
    \/ \E handling \in HandlingsIn \ {<<>>} : ApplyHandling(handling)
    \/ CalculateNavHistory

Spec == Init /\ [][Next]_vars

(* ------------- specification: ledgers and their cash ------------------ *)

InitLedger ==
    \/ \E txns \in SortedLedgers(DayRowsIn, MaxTxns) :
       \E histA \in {History("A", 0, Today), History("A", 0, 0)} :
           InitEngine(TRANSACTION, txns, <<>>, Provider(histA, NoHistory))
    \/ \E txns \in SortedLedgers(ClockRowsIn, MaxTxns) :
           InitEngine(TRANSACTION, txns, <<>>,
                      Provider(History("A", 0, Today), NoHistory))

NextLedger == CalculateNavHistory

SpecLedger == InitLedger /\ [][NextLedger]_vars

(* ----------- specification: the engine's calls in any order ----------- *)

\* Buys of A on any day, and a deposit on the first day.
MemoRowsIn ==
    {Txn(Midnight(d), "A", "BUY", 1, 10, 0) : d \in 0..MaxDay}
    \cup {Txn(0, "CASH", "DEPOSIT", 100, 1, 0)}

InitMemo ==
    \/ \E txns \in SortedLedgers(MemoRowsIn, MaxTxns) :
       \E histA \in {History("A", 0, Today), History("A", 0, 0)} :
           InitEngine(TRANSACTION, txns, <<>>, Provider(histA, NoHistory))
    \/ \E pos \in Snapshots({Position("A", 1), Position("B", 1)}, MaxTxns) :
           InitEngine(SNAPSHOT, <<>>, pos,
                      Provider(History("A", 0, 0), History("B", 0, Today)))

NextMemo ==
    \/ \E handling \in HandlingsIn : SetStaleTickerHandling(handling)
    \/ CalculateNavHistory
    \/ GetBasicIndicators
    \/ GetIndicators
    \/ GetAllIndicators

SpecMemo == InitMemo /\ [][NextMemo]_vars

(* ---------- specification: a symbol without price history ------------- *)

\* A portfolio of A and B, in either mode, where the provider may have
\* nothing for A.
InitFailed ==
    \/ \E txns \in SortedLedgers(MemoRowsIn, MaxTxns) :
       \E histA \in {History("A", 0, Today), NoHistory} :
           InitEngine(TRANSACTION, txns, <<>>, Provider(histA, History("B", 0, Today)))
    \/ \E pos \in Snapshots({Position("A", 1), Position("B", 1)}, MaxTxns) :
       \E histA \in {History("A", 0, Today), NoHistory} :
           InitEngine(SNAPSHOT, <<>>, pos, Provider(histA, History("B", 0, Today)))

NextFailed ==
    \/ \E handling \in HandlingsIn : SetStaleTickerHandling(handling)
    \/ CalculateNavHistory

SpecFailed == InitFailed /\ [][NextFailed]_vars

(* --------- specification: indicator calls from several threads -------- *)

\* A portfolio whose replay returns a series.
InitThreads ==
    InitEngine(TRANSACTION,
               <<Txn(0, "CASH", "DEPOSIT", 100, 1, 0), Txn(0, "A", "BUY", 1, 10, 0)>>,
               <<>>, Provider(History("A", 0, Today), NoHistory))

NextThreads ==
    \E t \in Threads :
        \/ \E op \in IndicatorCalls : Enter(t, op)
        \/ BaseCheck(t)
        \/ NavCheck(t)
        \/ RunImpl(t)
        \/ NavStore(t)
        \/ BaseStore(t)

SpecThreads == InitThreads /\ [][NextThreads]_vars

(* ---------- specification: one request with pre-loaded prices --------- *)

\* load_prices_batch for the symbols of the request's rows but 'CASH': the
\* provider's frame of every symbol, the empty frames left out.
LoadPricesBatch(symbols) ==
    [sym \in {s \in symbols : DOMAIN provider[s] # {}} |-> provider[sym]]

\* The symbols calculate_portfolio_full_stream extracts from the data rows.
RequestSymbols ==
    SeqToSet(UniqueSymbols(IF portfolio_type = SNAPSHOT THEN positions ELSE transactions))
    \ {"CASH"}

\* A cache that holds the provider's frame of every symbol, empty or not.
AllFrames(symbols) == [sym \in symbols |-> provider[sym]]

\* Rows of a request: one share of A or B bought on the first day, a share
\* of A sold on the second.
CacheRowsIn ==
    {Txn(0, "A", "BUY", 1, 10, 0), Txn(0, "B", "BUY", 1, 20, 0),
     Txn(Midnight(1), "A", "SELL", 1, 10, 0)}

InitCache ==
    \/ \E txns \in SortedLedgers(CacheRowsIn, MaxTxns) :
       \E histA \in HistoriesOfA :
           InitEngine(TRANSACTION, txns, <<>>, Provider(histA, History("B", 0, Today)))
    \/ \E pos \in Snapshots({Position("A", 1), Position("B", 1)}, MaxTxns) :
       \E histA \in HistoriesOfA :
           InitEngine(SNAPSHOT, <<>>, pos, Provider(histA, History("B", 0, Today)))

\* The request sets the cache on the engine it has just created, looks for
\* stale tickers, applies the handling it was given and asks for the NAV and
\* the indicators.
NextCache ==
    \/ /\ replays = 0
       /\ ~price_cache_set
       /\ last_call.op = "__init__"
       /\ \E cache \in {LoadPricesBatch(RequestSymbols), AllFrames(RequestSymbols)} :
              SetPriceCache(cache)
    \/ /\ replays = 0
       /\ DetectStaleTickers
    \/ \E handling \in HandlingsIn \ {<<>>} : ApplyHandling(handling)
    \/ CalculateNavHistory
    \/ GetBasicIndicators
    \/ GetIndicators
    \/ GetAllIndicators

SpecCache == InitCache /\ [][NextCache]_vars

(* ------- specification: a deposit, a purchase and a later sale --------- *)

\* The ledger [DEPOSIT 2020-01-01, BUY A 2020-01-02, SELL A 2020-06-01] for a
\* deposit, a number of shares bought at 100 and sold at `sold`, and the fee
\* of each trade; `sells` is whether the sale has been recorded.
TradeLedger(deposit, shares, sold, fee, sells) ==
    <<Txn(Midnight(Date(2020, 1, 1)), "CASH", "DEPOSIT", deposit, 1, 0),
      Txn(Midnight(Date(2020, 1, 2)), "A", "BUY", shares, 100, fee)>>
    \o (IF sells THEN <<Txn(Midnight(Date(2020, 6, 1)), "A", "SELL", shares, sold, fee)>>
        ELSE <<>>)

\* A's closes on the days `days`: 100 until 2020-06-01, `sold` from then on.
TradeHistory(days, sold) ==
    [d \in days |-> IF d < Date(2020, 6, 1) THEN 100 ELSE sold]

\* The days A has a close for: with or without 2020-01-02.
TradeDaysIn ==
    {{Date(2020, 1, 1), Date(2020, 1, 3), Date(2020, 5, 29), Date(2020, 6, 1),
      Date(2020, 6, 2), Date(2020, 6, 3)} \cup extra :
        extra \in {{}, {Date(2020, 1, 2)}}}

InitTrade ==
    \E deposit \in {5000, 10000} : \E shares \in {5, 10} : \E sold \in {120, 150} :
    \E fee \in {0, 1} : \E sells \in BOOLEAN : \E days \in TradeDaysIn :
    \E now \in {Date(2020, 6, 1), Date(2020, 6, 3)} :
        InitEngineAt(TRANSACTION, TradeLedger(deposit, shares, sold, fee, sells), <<>>,
                     <<>>, Provider(TradeHistory(days, sold), NoHistory), now)

NextTrade == CalculateNavHistory

SpecTrade == InitTrade /\ [][NextTrade]_vars

(* ------------- specification: portfolios that hold bonds --------------- *)

\* A bond of face value 3000 paying 12% a year, bought at par.
Bond(id, frequency, maturity_date, purchase_date, quantity) ==
    [id |-> id, face_value |-> 3000, coupon_rate |-> 12,
     maturity_date |-> maturity_date, payment_frequency |-> frequency,
     purchase_price |-> 100, purchase_quantity |-> quantity,
     purchase_date |-> purchase_date, current_price |-> None]

\* The bonds a portfolio may hold under the id `id`: zero-coupon, monthly and
\* quarterly ones, maturing in the middle or on the last day of a month,
\* bought in the middle or on the last day of January 2020.
BondsIn(id) ==
    {Bond(id, f, m, p, 2) :
        f \in {PaymentFrequency.ZERO_COUPON, PaymentFrequency.QUARTERLY,
                PaymentFrequency.MONTHLY},
        m \in {Date(2020, 3, 31), Date(2020, 4, 15), Date(2020, 8, 31)},
        p \in {Date(2020, 1, 15), Date(2020, 1, 31)}}

RECURSIVE BondLists(_)
\* The lists of exactly n bonds, the i-th of which has the id i.
BondLists(n) ==
    IF n = 0 THEN {<<>>}
    ELSE UNION {{Append(l, b) : b \in BondsIn(n)} : l \in BondLists(n - 1)}

\* The engine is built before or after the first maturities.
ClocksIn == {Date(2020, 3, 10), Date(2020, 5, 10)}

InitBonds ==
    \E n \in 1..MaxBonds :
    \E bnds \in BondLists(n) :
    \E now \in ClocksIn :
    \E txns \in {<<>>, <<Txn(0, "A", "BUY", 1, 10, 0)>>} :
        InitEngineAt(TRANSACTION, txns, <<>>, bnds,
                     Provider(History("A", 0, Today), NoHistory), now)

NextBonds == CalculateNavHistory

SpecBonds == InitBonds /\ [][NextBonds]_vars

(* ------------- indicators/aggregator.py: all the indicators ------------ *)

\* A DataFrame as far as the aggregator looks at it: its index and columns.
Frame(index, columns) == [index |-> index, columns |-> columns]

\* df.empty
IsEmpty(df) == df.index = {} \/ df.columns = {}

\* The categories every non-empty NAV series gets (aggregator.py 83-155).
CoreCategories == {"returns", "risk", "drawdown", "risk_adjusted_ratios", "tail_risk"}

\* The keys of result['allocation'] (aggregator.py 157-175).  A category is
\* modelled by the keys its dict holds; the figures are left out.
AllocationKeys(a) ==
    {"weights", "hhi", "top_5_concentration", "max_weight",
     "weight_deviation_from_equal"}
    \cup (IF a.holdings # None /\ a.prices # None
          THEN {"long_short_exposure"} ELSE {})
    \cup (IF a.sector_map # None THEN {"sector_allocation"} ELSE {})
    \cup (IF a.industry_map # None THEN {"industry_allocation"} ELSE {})

\* The keys of result['risk_decomposition'] (aggregator.py 177-189).
RiskDecompositionKeys(a) ==
    {"portfolio_volatility", "mctr", "by_asset"}
    \cup (IF a.sector_map # None THEN {"by_sector"} ELSE {})

\* The keys of calculate_all_trading_metrics' dict and turnover_by_asset.
TradingKeys ==
    {"trade_count", "turnover_rate", "avg_holding_period", "win_rate",
     "profit_loss_ratio", "profit_factor", "max_trade_profit", "max_trade_loss",
     "consecutive_winning_trades", "consecutive_losing_trades",
     "recovery_factor", "kelly_criterion", "turnover_by_asset"}

\* The keys of result['correlation']: returns_df = pct_change().dropna() has
\* one row less than price_history and the same columns.
CorrelationKeys(a) ==
    IF Cardinality(a.price_history[1].columns) > 1
    THEN {"mean_pairwise", "max_pairwise", "min_pairwise"}
    ELSE {}

\* `if weights is not None and len(weights) > 0:`
WithAllocation(result, a) ==
    IF a.weights # None /\ Cardinality(DOMAIN a.weights[1]) > 0
    THEN Put(result, "allocation", Some(AllocationKeys(a)))
    ELSE result

\* `if price_history is not None and not price_history.empty and weights is
\* not None and len(weights) > 1:`
WithRiskDecomposition(result, a) ==
    IF /\ a.price_history # None
       /\ ~IsEmpty(a.price_history[1])
       /\ a.weights # None
       /\ Cardinality(DOMAIN a.weights[1]) > 1
    THEN Put(result, "risk_decomposition", Some(RiskDecompositionKeys(a)))
    ELSE result

\* The trading category left out, like the others, when transactions are
\* missing or empty.
WithTradingOmitted(result, a) ==
    IF a.transactions # None /\ a.transactions[1] # <<>>
    THEN Put(result, "trading", Some(TradingKeys))
    ELSE result

\* `if transactions is not None and not transactions.empty: ... else:
\* result['trading'] = None`
WithTrading(result, a) ==
    IF a.transactions # None /\ a.transactions[1] # <<>>
    THEN Put(result, "trading", Some(TradingKeys))
    ELSE Put(result, "trading", None)

\* `if price_history is not None and not price_history.empty and
\* len(price_history) > 1:`
WithCorrelation(result, a) ==
    IF /\ a.price_history # None
       /\ ~IsEmpty(a.price_history[1])
       /\ Cardinality(a.price_history[1].index) > 1
    THEN Put(result, "correlation", Some(CorrelationKeys(a)))
    ELSE result

\* calculate_all_portfolio_indicators: the result dict, each category as the
\* keys of its dict, or None.
CalculateAllPortfolioIndicators(a) ==
    IF a.nav = <<>> THEN <<>>
    ELSE WithCorrelation(
           WithTrading(
             WithRiskDecomposition(
               WithAllocation([k \in CoreCategories |-> Some({"figures"})], a), a), a), a)

(* -------- specification: the indicators of a NAV series --------------- *)

\* An optional argument: left out, or one of the values of S.
Optional(S) == {None} \cup {Some(x) : x \in S}

\* The arguments calculate_all_portfolio_indicators is called with.
IndicatorArgs ==
    [nav : {<<>>, <<100, 110>>},
     transactions : Optional({<<>>, <<Txn(0, "A", "BUY", 1, 10, 0)>>}),
     holdings : Optional({[s \in {"A"} |-> 1]}),
     prices : Optional({[s \in {"A"} |-> 10]}),
     price_history : Optional({Frame({}, {"A", "B"}), Frame({0}, {"A", "B"}),
                               Frame({0, 1}, {"A"}), Frame({0, 1}, {"A", "B"})}),
     weights : Optional({<<>>, [s \in {"A"} |-> 100],
                         [s \in {"A", "B"} |-> 50]}),
     sector_map : Optional({[s \in {"A"} |-> "Tech"]}),
     industry_map : Optional({[s \in {"A"} |-> "Software"]})]

\* A call of calculate_all_portfolio_indicators(nav, ...).  Every optional
\* argument is tested against None before it is used, and the callees that
\* are handed holdings and prices return {} for a missing one
\* (allocation.py 67, 88), so the call returns.
CalculateAllPortfolioIndicatorsCall ==
    \E a \in IndicatorArgs :
        /\ last_call' = [op |-> "calculate_all_portfolio_indicators",
                         raised |-> FALSE,
                         result |-> CalculateAllPortfolioIndicators(a),
                         replayed |-> FALSE,
                         args |-> a]
        /\ UNCHANGED <<engine, threads, first_call, outside>>

InitIndicators == InitEngine(SNAPSHOT, <<>>, <<>>, Provider(NoHistory, NoHistory))

NextIndicators == CalculateAllPortfolioIndicatorsCall

SpecIndicators == InitIndicators /\ [][NextIndicators]_vars

(* ------ indicators/correlation_beta.py: against the benchmarks -------- *)

\* A float as far as the metrics are compared with 0.0: its sign, or nan.
FloatOf(x) == IF x > 0 THEN "positive" ELSE IF x < 0 THEN "negative" ELSE "0.0"

\* The sign of a quotient or product of two floats.
Times(x, y) ==
    IF x = "nan" \/ y = "nan" THEN "nan"
    ELSE IF x = "0.0" \/ y = "0.0" THEN "0.0"
    ELSE IF x = y THEN "positive" ELSE "negative"

\* series.sum() over the dates of idx.
Total(series, idx) == SumFn(series, idx)

\* n(n-1) times series.var() over the dates of idx: n * sum(x^2) - sum(x)^2.
SquareDev(series, idx) ==
    Cardinality(idx) * SumFn([d \in idx |-> series[d] * series[d]], idx)
    - Total(series, idx) * Total(series, idx)

\* n(n-1) times p.cov(b) over the dates of idx.
CoDev(p, b, idx) ==
    Cardinality(idx) * SumFn([d \in idx |-> p[d] * b[d]], idx)
    - Total(p, idx) * Total(b, idx)

\* The index of portfolio_returns.align(benchmark_returns, join='inner').
Aligned(p, b) == DOMAIN p \cap DOMAIN b

\* `if portfolio_returns.empty or benchmark_returns.empty: return 0.0`, then
\* `if len(aligned_portfolio) < 2: return 0.0`: what every aligning metric
\* starts with.
TooShort(p, b) ==
    DOMAIN p = {} \/ DOMAIN b = {} \/ Cardinality(Aligned(p, b)) < 2

\* calculate_beta
CalculateBeta(p, b) ==
    IF TooShort(p, b) THEN "0.0"
    ELSE IF SquareDev(b, Aligned(p, b)) = 0 THEN "0.0"
    ELSE FloatOf(CoDev(p, b, Aligned(p, b)))

\* calculate_alpha with risk_free_rate 0: mean(p) * 252 - beta * mean(b) * 252.
CalculateAlpha(p, b) ==
    IF TooShort(p, b) THEN "0.0"
    ELSE IF SquareDev(b, Aligned(p, b)) = 0 THEN FloatOf(Total(p, Aligned(p, b)))
    ELSE FloatOf(Total(p, Aligned(p, b)) * SquareDev(b, Aligned(p, b))
                 - CoDev(p, b, Aligned(p, b)) * Total(b, Aligned(p, b)))

\* calculate_r_squared: stats.linregress(benchmark, portfolio) refuses an x
\* whose values are all identical; r is 0 for a constant y.
CalculateRSquared(p, b) ==
    IF TooShort(p, b) THEN "0.0"
    ELSE IF SquareDev(b, Aligned(p, b)) = 0 THEN "raise"
    ELSE IF SquareDev(p, Aligned(p, b)) = 0 THEN "0.0"
    ELSE Times(FloatOf(CoDev(p, b, Aligned(p, b))), FloatOf(CoDev(p, b, Aligned(p, b))))

\* calculate_correlation_to_portfolio: a nan correlation is returned as 0.0.
CalculateCorrelationToPortfolio(p, b) ==
    IF TooShort(p, b) THEN "0.0"
    ELSE IF SquareDev(p, Aligned(p, b)) = 0 \/ SquareDev(b, Aligned(p, b)) = 0 THEN "0.0"
    ELSE FloatOf(CoDev(p, b, Aligned(p, b)))

\* aligned_portfolio - aligned_benchmark
ExcessReturns(p, b) == [d \in Aligned(p, b) |-> p[d] - b[d]]

\* calculate_tracking_error
CalculateTrackingError(p, b) ==
    IF TooShort(p, b) THEN "0.0"
    ELSE FloatOf(SquareDev(ExcessReturns(p, b), Aligned(p, b)))

\* calculate_information_ratio
CalculateInformationRatio(p, b) ==
    IF TooShort(p, b) THEN "0.0"
    ELSE IF SquareDev(ExcessReturns(p, b), Aligned(p, b)) = 0 THEN "0.0"
    ELSE FloatOf(Total(ExcessReturns(p, b), Aligned(p, b)))

\* calculate_upside_capture: the days the benchmark is above 0.
CalculateUpsideCapture(p, b) ==
    IF TooShort(p, b) THEN "0.0"
    ELSE IF {d \in Aligned(p, b) : b[d] > 0} = {} THEN "0.0"
    ELSE FloatOf(Total(p, {d \in Aligned(p, b) : b[d] > 0}))

\* calculate_downside_capture: the days the benchmark is below 0.
CalculateDownsideCapture(p, b) ==
    IF TooShort(p, b) THEN "0.0"
    ELSE IF {d \in Aligned(p, b) : b[d] < 0} = {} THEN "0.0"
    ELSE FloatOf(0 - Total(p, {d \in Aligned(p, b) : b[d] < 0}))

\* ratios.calculate_treynor_ratio with risk_free_rate 0, over all the
\* portfolio's returns.
CalculateTreynorRatio(returns, beta) ==
    IF DOMAIN returns = {} \/ beta = "0.0" THEN "0.0"
    ELSE Times(FloatOf(Total(returns, DOMAIN returns)), beta)

\* The sign of mean(p) * sqrt(var(b) / var(p)) - mean(b), both variances
\* being defined and var(p) above 0: the two terms are compared by their
\* signs and, when these agree, by their squares.
M2Sign(p, b) ==
    LET np == Cardinality(DOMAIN p)
        nb == Cardinality(DOMAIN b)
        sp == Total(p, DOMAIN p)
        sb == Total(b, DOMAIN b)
        left == IF SquareDev(b, DOMAIN b) = 0 THEN "0.0" ELSE FloatOf(sp)
        right == FloatOf(sb)
        squares == sp * sp * SquareDev(b, DOMAIN b) * (np - 1) * nb
                   - sb * sb * np * (nb - 1) * SquareDev(p, DOMAIN p)
    IN  IF left = right
        THEN (IF left = "0.0" THEN "0.0"
              ELSE IF left = "positive" THEN FloatOf(squares)
              ELSE FloatOf(0 - squares))
        ELSE IF left = "positive" \/ right = "negative" THEN "positive"
        ELSE "negative"

\* ratios.calculate_m2_measure with risk_free_rate 0: the two series are not
\* aligned; std() of a single return is nan, and nan == 0 is False.
CalculateM2Measure(returns, benchmark_returns) ==
    IF DOMAIN returns = {} \/ DOMAIN benchmark_returns = {} THEN "0.0"
    ELSE IF Cardinality(DOMAIN returns) = 1 THEN "nan"
    ELSE IF SquareDev(returns, DOMAIN returns) = 0 THEN "0.0"
    ELSE IF Cardinality(DOMAIN benchmark_returns) = 1 THEN "nan"
    ELSE M2Sign(returns, benchmark_returns)

\* The dict calculate_all_benchmark_metrics returns.
CalculateAllBenchmarkMetrics(p, b) ==
    IF DOMAIN p = {} \/ DOMAIN b = {}
    THEN [beta |-> "0.0", alpha |-> "0.0", r_squared |-> "0.0",
          correlation |-> "0.0", tracking_error |-> "0.0",
          information_ratio |-> "0.0", upside_capture |-> "0.0",
          downside_capture |-> "0.0", treynor_ratio |-> "0.0",
          m2_measure |-> "0.0"]
    ELSE [beta |-> CalculateBeta(p, b),
          alpha |-> CalculateAlpha(p, b),
          r_squared |-> CalculateRSquared(p, b),
          correlation |-> CalculateCorrelationToPortfolio(p, b),
          tracking_error |-> CalculateTrackingError(p, b),
          information_ratio |-> CalculateInformationRatio(p, b),
          upside_capture |-> CalculateUpsideCapture(p, b),
          downside_capture |-> CalculateDownsideCapture(p, b),
          treynor_ratio |-> CalculateTreynorRatio(p, CalculateBeta(p, b)),
          m2_measure |-> CalculateM2Measure(p, b)]

\* calculate_multi_benchmark_metrics, which calculate_benchmark_comparison
\* hands its arguments to: one dict of metrics per benchmark.
CalculateMultiBenchmarkMetrics(p, benchmark_returns_dict) ==
    [name \in DOMAIN benchmark_returns_dict |->
        CalculateAllBenchmarkMetrics(p, benchmark_returns_dict[name])]

\* A module-level function returns `result`, or raises.
FunctionReturns(op, raised, result) ==
    /\ last_call' = [op |-> op, raised |-> raised,
                     result |-> IF raised THEN <<>> ELSE result,
                     replayed |-> FALSE]
    /\ UNCHANGED <<engine, threads, first_call, outside>>

\* A call of calculate_benchmark_comparison(portfolio_returns,
\* benchmark_returns_dict).
CalculateBenchmarkComparison ==
    /\ inputs # <<>>
    /\ inputs.op = "calculate_benchmark_comparison"
    /\ LET results == CalculateMultiBenchmarkMetrics(inputs.portfolio_returns,
                                                     inputs.benchmark_returns_dict)
       IN  FunctionReturns("calculate_benchmark_comparison",
                           \E name \in DOMAIN results : results[name].r_squared = "raise",
                           results)

(* ------ specification: a portfolio compared with its benchmarks -------- *)

\* No engine is involved in a call of a module-level function.
NoEngine ==
    /\ EngineAt(SNAPSHOT, <<>>, <<>>, <<>>, Provider(NoHistory, NoHistory), Today)
    /\ ServerAtImport

\* Daily returns, in percent, on the days first .. final: rising by one a
\* day, falling from one, or constant.
ReturnsIn(first, final) ==
    {[d \in first..final |-> d], [d \in first..final |-> 2 - d],
     [d \in first..final |-> 1]}

\* Every series of returns over consecutive days within 1 .. MaxReturns, the
\* empty series among them.
ReturnSeries ==
    UNION {ReturnsIn(first, final) : first \in 1..MaxReturns, final \in 0..MaxReturns}

InitBenchmarks ==
    /\ NoEngine
    /\ \E p \in ReturnSeries : \E spy \in ReturnSeries :
       \E qqq \in ReturnsIn(1, 0) \cup ReturnsIn(1, 2) \cup ReturnsIn(MaxReturns, MaxReturns) :
           inputs = [op |-> "calculate_benchmark_comparison",
                     portfolio_returns |-> p,
                     benchmark_returns_dict |-> [name \in {"SPY", "QQQ"} |->
                                                   IF name = "SPY" THEN spy ELSE qqq]]

NextBenchmarks == CalculateBenchmarkComparison

SpecBenchmarks == InitBenchmarks /\ [][NextBenchmarks]_vars

(* --------- indicators/returns.py: profit and loss of trades ----------- *)

\* A share of a fee, `fee * sell_qty / qty`; the ledgers of the model keep
\* the division exact.
FeePart(fee, sell_qty, qty) == (fee * sell_qty) \div qty

\* `positions[symbol].append({...})`: the lot a BUY row opens.  `lot`, the
\* row's place in the ledger, is kept to tell the lots apart.
OpenLot(open_lots, txn, i) ==
    Put(open_lots, txn.symbol,
        Append(IF txn.symbol \in DOMAIN open_lots THEN open_lots[txn.symbol] ELSE <<>>,
               [lot |-> i, buy_date |-> txn.datetime, qty |-> txn.quantity,
                buy_price |-> txn.price, buy_fee |-> txn.fee]))

\* `buy_position['qty'] -= sell_qty` and the pop of a lot that is used up.
LotsAfter(lots, sell_qty) ==
    IF lots[1].qty - sell_qty <= 0 THEN Tail(lots)
    ELSE <<[lots[1] EXCEPT !.qty = @ - sell_qty]>> \o Tail(lots)

\* min(remaining_qty, buy_position['qty'])
SellQty(lots, remaining_qty) ==
    IF remaining_qty <= lots[1].qty THEN remaining_qty ELSE lots[1].qty

\* The trade calculate_realized_pnl books for sell_qty shares of the oldest
\* lot: only the SELL's fee is shared out.  `lot` and `sale` (the places of
\* the BUY and the SELL in the ledger) are kept for the claims.
RealizedTrade(buy_position, txn, i, sell_qty) ==
    [lot |-> buy_position.lot, sale |-> i, quantity |-> sell_qty,
     buy_price |-> buy_position.buy_price, sell_price |-> txn.price,
     buy_fee |-> 0,
     pnl |-> sell_qty * (txn.price - buy_position.buy_price)
             - FeePart(txn.fee, sell_qty, txn.quantity)]

\* `buy_position['buy_fee'] * sell_qty / buy_position['qty']`, where
\* buy_position['qty'] is what is left of the lot.
BuyFeePart(buy_position, sell_qty) ==
    FeePart(buy_position.buy_fee, sell_qty, buy_position.qty)

\* The trade calculate_trade_pnl appends for sell_qty shares of the oldest
\* lot; buy_fee is the share of the buy fee inside pnl.
PnlTrade(buy_position, txn, i, sell_qty) ==
    [lot |-> buy_position.lot, sale |-> i, quantity |-> sell_qty,
     buy_price |-> buy_position.buy_price, sell_price |-> txn.price,
     buy_fee |-> BuyFeePart(buy_position, sell_qty),
     pnl |-> sell_qty * (txn.price - buy_position.buy_price)
             - BuyFeePart(buy_position, sell_qty)
             - FeePart(txn.fee, sell_qty, txn.quantity)]

RECURSIVE CloseLots(_, _, _, _, _, _)
\* `while remaining_qty > 0 and positions[symbol]:` - the oldest lots are
\* closed first.  with_buy_fee tells calculate_trade_pnl's loop from
\* calculate_realized_pnl's.
CloseLots(lots, remaining_qty, txn, i, trades, with_buy_fee) ==
    IF remaining_qty <= 0 \/ lots = <<>> THEN [lots |-> lots, trades |-> trades]
    ELSE CloseLots(LotsAfter(lots, SellQty(lots, remaining_qty)),
                   remaining_qty - SellQty(lots, remaining_qty), txn, i,
                   Append(trades,
                          IF with_buy_fee
                          THEN PnlTrade(lots[1], txn, i, SellQty(lots, remaining_qty))
                          ELSE RealizedTrade(lots[1], txn, i, SellQty(lots, remaining_qty))),
                   with_buy_fee)

RECURSIVE MatchFrom(_, _, _, _, _)
\* `for _, txn in transactions.iterrows():` from row i on.
MatchFrom(txns, i, open_lots, trades, with_buy_fee) ==
    IF i > Len(txns) THEN trades
    ELSE IF txns[i].side = "BUY"
    THEN MatchFrom(txns, i + 1, OpenLot(open_lots, txns[i], i), trades, with_buy_fee)
    ELSE IF /\ txns[i].side = "SELL"
            /\ txns[i].symbol \in DOMAIN open_lots
            /\ open_lots[txns[i].symbol] # <<>>
    THEN MatchFrom(txns, i + 1,
                   Put(open_lots, txns[i].symbol,
                       CloseLots(open_lots[txns[i].symbol], txns[i].quantity, txns[i],
                                 i, trades, with_buy_fee).lots),
                   CloseLots(open_lots[txns[i].symbol], txns[i].quantity, txns[i],
                             i, trades, with_buy_fee).trades,
                   with_buy_fee)
    ELSE MatchFrom(txns, i + 1, open_lots, trades, with_buy_fee)

\* sum of the pnl of the trades
TotalPnl(trades) == SumFn([k \in 1..Len(trades) |-> trades[k].pnl], 1..Len(trades))

\* calculate_realized_pnl: the float returned, with the trades it summed.
CalculateRealizedPnl(txns) ==
    [realized |-> TotalPnl(MatchFrom(txns, 1, <<>>, <<>>, FALSE)),
     trades |-> MatchFrom(txns, 1, <<>>, <<>>, FALSE)]

\* calculate_trade_pnl: the rows of the DataFrame returned.
CalculateTradePnl(txns) == MatchFrom(txns, 1, <<>>, <<>>, TRUE)

\* A call of calculate_realized_pnl(transactions).
CalculateRealizedPnlCall ==
    /\ inputs # <<>>
    /\ inputs.op = "calculate_realized_pnl"
    /\ FunctionReturns("calculate_realized_pnl", FALSE,
                       CalculateRealizedPnl(inputs.transactions))

\* A call of calculate_trade_pnl(transactions).
CalculateTradePnlCall ==
    /\ inputs # <<>>
    /\ inputs.op = "calculate_trade_pnl"
    /\ FunctionReturns("calculate_trade_pnl", FALSE,
                       CalculateTradePnl(inputs.transactions))

(* -------- specification: the profit and loss of a ledger --------------- *)

\* Rows of a ledger of trades: fees and quantities such that every share of
\* a fee is a whole number.
PnlRowsIn ==
    {[side |-> "BUY", symbol |-> "A", quantity |-> 2, price |-> 10, fee |-> 12],
     [side |-> "BUY", symbol |-> "A", quantity |-> 4, price |-> 20, fee |-> 24],
     [side |-> "SELL", symbol |-> "A", quantity |-> 1, price |-> 30, fee |-> 6],
     [side |-> "SELL", symbol |-> "A", quantity |-> 3, price |-> 30, fee |-> 12],
     [side |-> "SELL", symbol |-> "A", quantity |-> 6, price |-> 15, fee |-> 0],
     [side |-> "BUY", symbol |-> "B", quantity |-> 2, price |-> 10, fee |-> 12],
     [side |-> "SELL", symbol |-> "B", quantity |-> 2, price |-> 5, fee |-> 12]}

\* The ledgers of n rows, one row a day.
PnlLedgers(n) ==
    {[i \in 1..n |-> Txn(Midnight(i), rows[i].symbol, rows[i].side,
                         rows[i].quantity, rows[i].price, rows[i].fee)] :
        rows \in [1..n -> PnlRowsIn]}

InitPnl ==
    /\ NoEngine
    /\ \E n \in 0..MaxTrades : \E txns \in PnlLedgers(n) :
       \E op \in {"calculate_realized_pnl", "calculate_trade_pnl"} :
           inputs = [op |-> op, transactions |-> txns]

NextPnl == CalculateRealizedPnlCall \/ CalculateTradePnlCall

SpecPnl == InitPnl /\ [][NextPnl]_vars

(* ------------- indicators/drawdown.py: the drawdown -------------------- *)

\* nav.expanding().max() on day d of a series over the days 1 .. n.
RunningMax(nav, d) == Max({nav[k] : k \in 1..d})

\* (nav - running_max) / running_max as a float: the quotient with a
\* denominator above 0, -inf for a loss from a peak of 0, nan for 0 / 0.
Quotient(num, den) ==
    IF den > 0 THEN [kind |-> "finite", num |-> num, den |-> den]
    ELSE IF den < 0 THEN [kind |-> "finite", num |-> 0 - num, den |-> 0 - den]
    ELSE IF num < 0 THEN [kind |-> "-inf", num |-> 0, den |-> 1]
    ELSE IF num > 0 THEN [kind |-> "inf", num |-> 0, den |-> 1]
    ELSE [kind |-> "nan", num |-> 0, den |-> 1]

\* calculate_drawdown_series
CalculateDrawdownSeries(nav) ==
    [d \in DOMAIN nav |-> Quotient(nav[d] - RunningMax(nav, d), RunningMax(nav, d))]

\* x <= y for two floats that are not nan.
AtMost(x, y) ==
    IF x.kind = "-inf" \/ y.kind = "inf" THEN TRUE
    ELSE IF x.kind = "inf" \/ y.kind = "-inf" THEN FALSE
    ELSE x.num * y.den <= y.num * x.den

\* series.min(), which skips nan and is nan when nothing is left.
SeriesMin(series) ==
    LET values == {series[d] : d \in {k \in DOMAIN series : series[k].kind # "nan"}}
    IN  IF values = {} THEN Quotient(0, 0)
        ELSE CHOOSE x \in values : \A y \in values : AtMost(x, y)

\* 0.0
Zero == Quotient(0, 1)

\* calculate_max_drawdown
CalculateMaxDrawdown(nav) ==
    IF nav = <<>> THEN Zero ELSE SeriesMin(CalculateDrawdownSeries(nav))

\* A call of calculate_drawdown_series(nav).
CalculateDrawdownSeriesCall ==
    /\ inputs # <<>>
    /\ inputs.op = "calculate_drawdown_series"
    /\ FunctionReturns("calculate_drawdown_series", FALSE,
                       CalculateDrawdownSeries(inputs.nav))

\* A call of calculate_max_drawdown(nav).
CalculateMaxDrawdownCall ==
    /\ inputs # <<>>
    /\ inputs.op = "calculate_max_drawdown"
    /\ FunctionReturns("calculate_max_drawdown", FALSE,
                       CalculateMaxDrawdown(inputs.nav))

(* ---------- specification: the drawdown of a NAV series --------------- *)

\* The NAV series over the days 1 .. n: a portfolio in debt has a NAV below 0.
NavSeries(n) == [1..n -> {0 - 200, 0 - 100, 0, 100, 200}]

InitDrawdown ==
    /\ NoEngine
    /\ \E n \in 0..MaxReturns : \E nav \in NavSeries(n) :
       \E op \in {"calculate_drawdown_series", "calculate_max_drawdown"} :
           inputs = [op |-> op, nav |-> nav]

NextDrawdown == CalculateDrawdownSeriesCall \/ CalculateMaxDrawdownCall

SpecDrawdown == InitDrawdown /\ [][NextDrawdown]_vars

(* ------------------- cache.py: validate_symbol ------------------------- *)

\* A string is the sequence of its characters.  The characters the pattern
\* [A-Z0-9\.\^\_\-] admits, among those the model writes symbols with.
AllowedChars == {"A", "0", ".", "^", "_", "-"}

\* The characters of the symbols handed to validate_symbol: the allowed
\* ones, a lower-case letter, the two separators and a newline.
Chars == AllowedChars \cup {"a", "/", "\\", "\n"}

\* re.match(r'^[A-Z0-9\.\^\_\-]+$', symbol): one or more allowed characters;
\* `$` also matches just before a newline that ends the string.
MatchesPattern(symbol) ==
    LET body == IF symbol # <<>> /\ symbol[Len(symbol)] = "\n"
                THEN SubSeq(symbol, 1, Len(symbol) - 1) ELSE symbol
    IN  body # <<>> /\ \A i \in 1..Len(body) : body[i] \in AllowedChars

\* No symbol is taken to hold path traversal characters.
HasTraversalNever(symbol) == FALSE

\* `'..' in symbol or '/' in symbol or '\\' in symbol`
HasTraversal(symbol) ==
    \/ \E i \in 1..(Len(symbol) - 1) : symbol[i] = "." /\ symbol[i + 1] = "."
    \/ \E i \in 1..Len(symbol) : symbol[i] \in {"/", "\\"}

\* validate_symbol: whether it raises ValueError, and what it returns.
ValidateSymbol(symbol) ==
    IF symbol = <<>> THEN [raised |-> TRUE, result |-> <<>>]
    ELSE IF ~MatchesPattern(symbol) THEN [raised |-> TRUE, result |-> <<>>]
    ELSE IF HasTraversal(symbol) THEN [raised |-> TRUE, result |-> <<>>]
    ELSE IF Len(symbol) > 20 THEN [raised |-> TRUE, result |-> <<>>]
    ELSE [raised |-> FALSE, result |-> symbol]

RECURSIVE SplitPath(_, _, _)
\* The components of a path, split at os.sep: `parts` are the components
\* read so far and `part` the one being read.
SplitPath(path, parts, part) ==
    IF path = <<>> THEN Append(parts, part)
    ELSE IF path[1] = "/" THEN SplitPath(Tail(path), Append(parts, part), <<>>)
    ELSE SplitPath(Tail(path), parts, Append(part, path[1]))

RECURSIVE NormPath(_, _)
\* os.path.abspath of a list of components under the root: '' and '.' are
\* dropped and '..' steps back.
NormPath(parts, done) ==
    IF parts = <<>> THEN done
    ELSE IF parts[1] \in {<<>>, <<".">>} THEN NormPath(Tail(parts), done)
    ELSE IF parts[1] = <<".", ".">>
    THEN NormPath(Tail(parts), IF done = <<>> THEN done ELSE SubSeq(done, 1, Len(done) - 1))
    ELSE NormPath(Tail(parts), Append(done, parts[1]))

\* self.prices_dir, an absolute path, as its components.
PricesDir == <<<<"d", "a", "t", "a">>, <<"p", "r", "i", "c", "e", "s">>>>

\* os.path.abspath(os.path.join(self.prices_dir, f"{symbol}.csv")): a second
\* argument that starts with the separator replaces the first.
CsvPath(symbol) ==
    IF symbol # <<>> /\ symbol[1] = "/"
    THEN NormPath(SplitPath(symbol \o <<".", "c", "s", "v">>, <<>>, <<>>), <<>>)
    ELSE NormPath(PricesDir \o SplitPath(symbol \o <<".", "c", "s", "v">>, <<>>, <<>>), <<>>)

\* csv_path.startswith(self.prices_dir + os.sep)
InsidePricesDir(path) ==
    Len(path) > Len(PricesDir) /\ SubSeq(path, 1, Len(PricesDir)) = PricesDir

\* A call of validate_symbol(symbol).
ValidateSymbolCall ==
    /\ inputs # <<>>
    /\ inputs.op = "validate_symbol"
    /\ FunctionReturns("validate_symbol", ValidateSymbol(inputs.symbol).raised,
                       ValidateSymbol(inputs.symbol).result)

(* ------------- specification: a symbol is validated ------------------- *)

\* The symbols of n characters.
SymbolsOfLen(n) == [1..n -> Chars]

\* A ticker of n characters.
LongSymbol(n) == [i \in 1..n |-> "A"]

InitSymbol ==
    /\ NoEngine
    /\ \E symbol \in UNION {SymbolsOfLen(n) : n \in 0..MaxSymbolLen}
                     \cup {LongSymbol(20), LongSymbol(21)} :
           inputs = [op |-> "validate_symbol", symbol |-> symbol]

NextSymbol == ValidateSymbolCall

SpecSymbol == InitSymbol /\ [][NextSymbol]_vars

(* ------------------- endpoints.py: check_rate_limit -------------------- *)

RATE_LIMIT_REQUESTS == 10
RATE_LIMIT_WINDOW == 60

ClientIps == {"10.0.0.1", "10.0.0.2"}

\* The lock is never found taken.
LockFreeAlways == TRUE

\* rate_limit_lock can be acquired.
LockFree == rate_limit_lock = None

RECURSIVE Recent(_, _)
\* [timestamp for timestamp in rate_limit_store[client_ip] if timestamp > cutoff]
Recent(timestamps, cutoff) ==
    IF timestamps = <<>> THEN <<>>
    ELSE IF timestamps[1] > cutoff
    THEN <<timestamps[1]>> \o Recent(Tail(timestamps), cutoff)
    ELSE Recent(Tail(timestamps), cutoff)

RECURSIVE CallsAnswered(_)
\* How many calls of check_rate_limit have returned, over the IPs in `ips`.
CallsAnswered(ips) ==
    IF ips = {} THEN 0
    ELSE LET ip == CHOOSE x \in ips : TRUE
         IN  Len(answered[ip]) + CallsAnswered(ips \ {ip})

\* The calls made so far, returned or not.
CallsMade ==
    CallsAnswered(ClientIps) + Cardinality({t \in Threads : requests[t].pc # "idle"})

NoRequest == [pc |-> "idle", client_ip |-> "", now |-> 0]

\* What the steps of check_rate_limit leave alone.
RateLimitFrame == UNCHANGED <<engine, threads, first_call, inputs, streaming, caching>>

\* Thread t calls check_rate_limit(client_ip) and comes to `with rate_limit_lock`.
CheckRateLimitEnter(t) ==
    /\ requests[t].pc = "idle"
    /\ CallsMade < MaxCalls
    /\ \E client_ip \in ClientIps :
           requests' = [requests EXCEPT ![t] = [pc |-> "waiting", client_ip |-> client_ip,
                                                now |-> 0]]
    /\ UNCHANGED <<rate_limit_store, rate_limit_lock, wall_clock, answered, last_call>>
    /\ RateLimitFrame

\* Thread t acquires the lock and reads now = datetime.now().
CheckRateLimitAcquire(t) ==
    /\ requests[t].pc = "waiting"
    /\ LockFree
    /\ rate_limit_lock' = Some(t)
    /\ requests' = [requests EXCEPT ![t].pc = "locked", ![t].now = wall_clock]
    /\ UNCHANGED <<rate_limit_store, wall_clock, answered, last_call>>
    /\ RateLimitFrame

\* Thread t cleans the old entries of its client's list.
CheckRateLimitClean(t) ==
    /\ requests[t].pc = "locked"
    /\ rate_limit_store' =
           [rate_limit_store EXCEPT ![requests[t].client_ip] =
                Recent(rate_limit_store[requests[t].client_ip],
                       requests[t].now - RATE_LIMIT_WINDOW)]
    /\ requests' = [requests EXCEPT ![t].pc = "cleaned"]
    /\ UNCHANGED <<rate_limit_lock, wall_clock, answered, last_call>>
    /\ RateLimitFrame

\* Thread t answers, with `allowed`, the call it stamped `now`, and releases the lock.
CheckRateLimitReturns(t, allowed) ==
    /\ requests' = [requests EXCEPT ![t] = NoRequest]
    /\ rate_limit_lock' = None
    /\ answered' = [answered EXCEPT ![requests[t].client_ip] =
                        Append(@, [at |-> requests[t].now, allowed |-> allowed])]
    /\ last_call' = [op |-> "check_rate_limit", raised |-> FALSE, result |-> allowed,
                     replayed |-> FALSE]
    /\ UNCHANGED wall_clock
    /\ RateLimitFrame

\* Thread t finds the limit exceeded and returns False.
CheckRateLimitExceeded(t) ==
    /\ requests[t].pc = "cleaned"
    /\ Len(rate_limit_store[requests[t].client_ip]) >= RATE_LIMIT_REQUESTS
    /\ UNCHANGED rate_limit_store
    /\ CheckRateLimitReturns(t, FALSE)

\* Thread t finds its client within the limit.
CheckRateLimitWithin(t) ==
    /\ requests[t].pc = "cleaned"
    /\ Len(rate_limit_store[requests[t].client_ip]) < RATE_LIMIT_REQUESTS
    /\ requests' = [requests EXCEPT ![t].pc = "within"]
    /\ UNCHANGED <<rate_limit_store, rate_limit_lock, wall_clock, answered, last_call>>
    /\ RateLimitFrame

\* Thread t adds the current request and returns True.
CheckRateLimitAllowed(t) ==
    /\ requests[t].pc = "within"
    /\ rate_limit_store' = [rate_limit_store EXCEPT ![requests[t].client_ip] =
                                Append(@, requests[t].now)]
    /\ CheckRateLimitReturns(t, TRUE)

\* The wall clock moves on.
ClockTicks ==
    /\ wall_clock < MaxTicks * TickSeconds
    /\ wall_clock' = wall_clock + TickSeconds
    /\ UNCHANGED <<rate_limit_store, rate_limit_lock, requests, answered, last_call>>
    /\ RateLimitFrame

(* ------------- specification: requests are rate limited --------------- *)

InitRateLimit == NoEngine /\ inputs = <<>>

NextRateLimit ==
    \/ \E t \in Threads : CheckRateLimitEnter(t)
    \/ \E t \in Threads : CheckRateLimitAcquire(t)
    \/ \E t \in Threads : CheckRateLimitClean(t)
    \/ \E t \in Threads : CheckRateLimitExceeded(t)
    \/ \E t \in Threads : CheckRateLimitWithin(t)
    \/ \E t \in Threads : CheckRateLimitAllowed(t)
    \/ ClockTicks

SpecRateLimit == InitRateLimit /\ [][NextRateLimit]_vars

(* ------------ endpoints.py: calculate_portfolio_full_stream ------------ *)

\* The symbols a request's rows may name.
StreamSymbols == {"AAPL", "SAP"}

\* The events of a stream whose data line is a constant message.
Pauses == {"awaiting_symbol_resolution", "awaiting_stale_ticker_handling"}

\* The events after which the generator ends.
LastEvents == Pauses \cup {"complete", "error"}

EventNames ==
    {"symbols_unresolved", "prices_loaded", "stale_tickers_detected", "nav_calculated",
     "indicators_basic_calculated", "benchmark_comparison_calculated",
     "indicators_all_calculated"} \cup LastEvents

\* The statement after the data line of `event`, were the generator not to
\* return once it has asked for the stale ticker handling.
AfterGoesOn(event) ==
    IF event = "symbols_unresolved" THEN "awaiting_symbol_resolution"
    ELSE IF event = "prices_loaded" THEN "engine"
    ELSE IF event = "stale_tickers_detected" THEN "awaiting_stale_ticker_handling"
    ELSE IF event = "awaiting_stale_ticker_handling" THEN "nav"
    ELSE IF event = "nav_calculated" THEN "indicators"
    ELSE IF event = "indicators_basic_calculated" THEN "benchmark_comparison_calculated"
    ELSE IF event = "benchmark_comparison_calculated" THEN "all_indicators"
    ELSE IF event = "indicators_all_calculated" THEN "completion"
    ELSE "closed"

\* The statement after the data line of `event`: the next yield, the next
\* computation, or the end of the generator ("closed").
After(event) ==
    IF event = "symbols_unresolved" THEN "awaiting_symbol_resolution"
    ELSE IF event = "prices_loaded" THEN "engine"
    ELSE IF event = "stale_tickers_detected" THEN "awaiting_stale_ticker_handling"
    ELSE IF event = "nav_calculated" THEN "indicators"
    ELSE IF event = "indicators_basic_calculated" THEN "benchmark_comparison_calculated"
    ELSE IF event = "benchmark_comparison_calculated" THEN "all_indicators"
    ELSE IF event = "indicators_all_calculated" THEN "completion"
    ELSE "closed"

\* The statements of the try block that call into the resolver, the price
\* loaders, the engine or the indicators, and so may raise.
Computations == {"start", "load", "engine", "nav", "indicators", "all_indicators", "completion"}

\* symbol_resolutions or skipped_symbols: the user has dealt with resolution.
UserResolved == stream_request.symbol_resolutions # {} \/ stream_request.skipped_symbols # {}

\* What a step of the generator leaves alone.
StreamFrame ==
    UNCHANGED <<engine, last_call, threads, first_call, inputs, rate_limit_store,
                rate_limit_lock, wall_clock, requests, answered, stream_request, caching>>

\* The generator goes to statement `pc` with the symbols `symbols`.
StreamGoes(pc, symbols) ==
    /\ stream' = [stream EXCEPT !.pc = pc, !.data_line = FALSE, !.symbols = symbols]
    /\ UNCHANGED emitted
    /\ StreamFrame

\* PHASE 0 with the user's resolutions: skipped symbols are dropped.
StreamAppliesResolutions ==
    /\ stream.pc = "start"
    /\ UserResolved
    /\ StreamGoes("load", stream.symbols \ stream_request.skipped_symbols)

\* PHASE 0 with the resolver: it leaves `unresolved_list` unresolved, and the
\* stream pauses when that is not empty.
StreamResolves ==
    /\ stream.pc = "start"
    /\ ~UserResolved
    /\ \E unresolved_list \in SUBSET stream.symbols :
           StreamGoes(IF unresolved_list # {} THEN "symbols_unresolved" ELSE "load",
                      stream.symbols)

\* PHASE 1: the prices and the benchmarks are loaded.
StreamLoads ==
    /\ stream.pc = "load"
    /\ StreamGoes("prices_loaded", stream.symbols)

\* PHASE 2: the engine is built; without a handling in the request the stale
\* tickers are detected and, if there are any, the stream pauses.
StreamDetects ==
    /\ stream.pc = "engine"
    /\ IF stream_request.stale_ticker_handling
       THEN StreamGoes("nav", stream.symbols)
       ELSE \E detected \in SUBSET stream.symbols :
                StreamGoes(IF detected # {} THEN "stale_tickers_detected" ELSE "nav",
                           stream.symbols)

\* The NAV, the indicators and the completion data are computed.
StreamComputes ==
    /\ stream.pc \in {"nav", "indicators", "all_indicators", "completion"}
    /\ StreamGoes(IF stream.pc = "nav" THEN "nav_calculated"
                  ELSE IF stream.pc = "indicators" THEN "indicators_basic_calculated"
                  ELSE IF stream.pc = "all_indicators" THEN "indicators_all_calculated"
                  ELSE "complete",
                  stream.symbols)

\* yield f"event: ...\n"
StreamYieldsEvent ==
    /\ stream.pc \in EventNames
    /\ ~stream.data_line
    /\ emitted' = Append(emitted, stream.pc)
    /\ stream' = [stream EXCEPT !.data_line = TRUE]
    /\ StreamFrame

\* yield f"data: ...\n\n"
StreamYieldsData ==
    /\ stream.pc \in EventNames
    /\ stream.data_line
    /\ StreamGoes(After(stream.pc), stream.symbols)

\* A computation raises, or json.dumps does over a computed payload: the
\* handler yields the error event.  The messages of the pauses, the
\* completion data (strings and floats) and the handler's own payload
\* serialise.
StreamRaises ==
    /\ \/ stream.pc \in Computations
       \/ stream.pc \in EventNames \ LastEvents /\ stream.data_line
    /\ StreamGoes("error", stream.symbols)

(* ------------ specification: one portfolio-full stream ---------------- *)

StreamRequests ==
    [symbols : SUBSET StreamSymbols, symbol_resolutions : SUBSET StreamSymbols,
     skipped_symbols : SUBSET StreamSymbols, stale_ticker_handling : BOOLEAN]

InitStream ==
    /\ EngineAt(SNAPSHOT, <<>>, <<>>, <<>>, Provider(NoHistory, NoHistory), Today)
    /\ inputs = <<>>
    /\ RateLimitAtImport
    /\ stream_request \in StreamRequests
    /\ stream = [pc |-> "start", data_line |-> FALSE, symbols |-> stream_request.symbols]
    /\ emitted = <<>>
    /\ NoCacheManager

NextStream ==
    \/ StreamAppliesResolutions
    \/ StreamResolves
    \/ StreamLoads
    \/ StreamDetects
    \/ StreamComputes
    \/ StreamYieldsEvent
    \/ StreamYieldsData
    \/ StreamRaises

SpecStream == InitStream /\ [][NextStream]_vars

(* --------------------- cache.py: PriceCacheManager --------------------- *)

\* self.ttl, in seconds.
CacheTtl == TickSeconds

\* A time further back than the ttl.
LongAgo == 0 - 2 * CacheTtl

\* age <= self.ttl for an entry last updated at `last_updated`.
Fresh(last_updated) == wall_clock - last_updated <= CacheTtl

\* A DataFrame: who fetched it (0: it was on disk before) and whether it is
\* empty.
FetchedFrame(by, empty) == [by |-> by, empty |-> empty]

\* pd.DataFrame()
EmptyFrame == FetchedFrame(0, TRUE)

NoCaller == [pc |-> "idle", locked |-> FALSE, migrated |-> None, data |-> None,
             result |-> None]

\* What a step of the cache manager leaves alone.
CacheFrame ==
    UNCHANGED <<engine, last_call, threads, first_call, inputs, limiter, streaming>>

\* Caller t moves to `pc`.
CallerGoes(t, pc) == callers' = [callers EXCEPT ![t].pc = pc]

\* Caller t calls get_or_refresh(symbol, fetch_func).
GetOrRefreshCall(t) ==
    /\ callers[t].pc = "idle"
    /\ CallerGoes(t, "is_cache_valid")
    /\ UNCHANGED <<csv_file, metadata_file, metadata_lock, fetched, wall_clock>>
    /\ CacheFrame

\* is_cache_valid: _load_metadata has the symbol, whose age decides.
LoadsMetadata(t) ==
    /\ callers[t].pc = "is_cache_valid"
    /\ metadata_file # None
    /\ CallerGoes(t, IF Fresh(metadata_file[1]) THEN "valid" ELSE "invalid")
    /\ UNCHANGED <<csv_file, metadata_file, metadata_lock, fetched, wall_clock>>
    /\ CacheFrame

\* is_cache_valid: the symbol is not in the metadata, and
\* _migrate_existing_csv finds no CSV (the cache is not valid) or reads the
\* CSV and its mtime.
MigrateReadsCsv(t) ==
    /\ callers[t].pc = "is_cache_valid"
    /\ metadata_file = None
    /\ callers' = [callers EXCEPT
           ![t].pc = IF csv_file = None THEN "invalid" ELSE "migrate_lock",
           ![t].migrated = IF csv_file = None THEN None ELSE Some(csv_file.mtime)]
    /\ UNCHANGED <<csv_file, metadata_file, metadata_lock, fetched, wall_clock>>
    /\ CacheFrame

\* _migrate_existing_csv: `with self._acquire_lock()`.  The lock is a flock
\* on a file opened anew, which also waits for a lock of the same thread.
MigrateLocks(t) ==
    /\ callers[t].pc = "migrate_lock"
    /\ metadata_lock = None
    /\ metadata_lock' = Some(t)
    /\ CallerGoes(t, "migrate_save")
    /\ UNCHANGED <<csv_file, metadata_file, fetched, wall_clock>>
    /\ CacheFrame

\* _migrate_existing_csv: all_metadata[symbol] = metadata is saved and the
\* lock released; is_cache_valid decides by the migrated entry's age.
MigrateSaves(t) ==
    /\ callers[t].pc = "migrate_save"
    /\ metadata_file' = callers[t].migrated
    /\ metadata_lock' = None
    /\ CallerGoes(t, IF Fresh(callers[t].migrated[1]) THEN "valid" ELSE "invalid")
    /\ UNCHANGED <<csv_file, fetched, wall_clock>>
    /\ CacheFrame

\* get_or_refresh: the cache is valid; _read_csv is returned, and the lock
\* released if it was taken.
ReturnsCsv(t) ==
    /\ callers[t].pc = "valid"
    /\ callers' = [callers EXCEPT
           ![t].pc = "returned", ![t].locked = FALSE,
           ![t].result = IF csv_file = None THEN Some(EmptyFrame) ELSE Some(csv_file.data)]
    /\ metadata_lock' = IF callers[t].locked THEN None ELSE metadata_lock
    /\ UNCHANGED <<csv_file, metadata_file, fetched, wall_clock>>
    /\ CacheFrame

\* get_or_refresh: the cache is not valid; `with self._acquire_lock()`, and
\* is_cache_valid is asked again.
GetOrRefreshLocks(t) ==
    /\ callers[t].pc = "invalid"
    /\ ~callers[t].locked
    /\ metadata_lock = None
    /\ metadata_lock' = Some(t)
    /\ callers' = [callers EXCEPT ![t].pc = "is_cache_valid", ![t].locked = TRUE]
    /\ UNCHANGED <<csv_file, metadata_file, fetched, wall_clock>>
    /\ CacheFrame

\* get_or_refresh: still not valid under the lock; data = fetch_func(),
\* which returns fresh rows or an empty frame.
Fetches(t) ==
    /\ callers[t].pc = "invalid"
    /\ callers[t].locked
    /\ fetched' = Append(fetched, t)
    /\ \E data \in {FetchedFrame(t, TRUE), FetchedFrame(t, FALSE)} :
           callers' = [callers EXCEPT ![t].pc = "update_cache", ![t].data = Some(data)]
    /\ UNCHANGED <<csv_file, metadata_file, metadata_lock, wall_clock>>
    /\ CacheFrame

\* _update_cache: an empty frame is not cached; other data is written to
\* the CSV.
UpdateCacheWritesCsv(t) ==
    /\ callers[t].pc = "update_cache"
    /\ IF callers[t].data[1].empty
       THEN CallerGoes(t, "return_data") /\ UNCHANGED csv_file
       ELSE /\ csv_file' = [mtime |-> wall_clock, data |-> callers[t].data[1]]
            /\ CallerGoes(t, "update_metadata")
    /\ UNCHANGED <<metadata_file, metadata_lock, fetched, wall_clock>>
    /\ CacheFrame

\* _update_cache: the symbol's metadata is saved with last_updated = now.
UpdateCacheSavesMetadata(t) ==
    /\ callers[t].pc = "update_metadata"
    /\ metadata_file' = Some(wall_clock)
    /\ CallerGoes(t, "return_data")
    /\ UNCHANGED <<csv_file, metadata_lock, fetched, wall_clock>>
    /\ CacheFrame

\* get_or_refresh: `return data`, releasing the lock.
ReturnsData(t) ==
    /\ callers[t].pc = "return_data"
    /\ callers' = [callers EXCEPT ![t].pc = "returned", ![t].locked = FALSE,
                                  ![t].result = callers[t].data]
    /\ metadata_lock' = None
    /\ UNCHANGED <<csv_file, metadata_file, fetched, wall_clock>>
    /\ CacheFrame

\* Time passes while the cache is in use.
CacheClockTicks ==
    /\ wall_clock < MaxTicks * TickSeconds
    /\ wall_clock' = wall_clock + TickSeconds
    /\ UNCHANGED caching
    /\ UNCHANGED <<engine, last_call, threads, first_call, inputs, rate_limit_store,
                   rate_limit_lock, requests, answered, streaming>>

(* --------- specification: callers share one symbol's cache ------------ *)

\* The cache of the symbol is missing or expired: no CSV or one written long
\* ago, and no metadata entry or one last updated long ago.
InitCacheManager ==
    /\ EngineAt(SNAPSHOT, <<>>, <<>>, <<>>, Provider(NoHistory, NoHistory), Today)
    /\ inputs = <<>>
    /\ RateLimitAtImport
    /\ NoStream
    /\ csv_file \in {None, [mtime |-> LongAgo, data |-> FetchedFrame(0, FALSE)]}
    /\ metadata_file \in {None, Some(LongAgo)}
    /\ metadata_lock = None
    /\ callers = [t \in Threads |-> NoCaller]
    /\ fetched = <<>>

NextCacheManager ==
    \/ \E t \in Threads : GetOrRefreshCall(t)
    \/ \E t \in Threads : LoadsMetadata(t)
    \/ \E t \in Threads : MigrateReadsCsv(t)
    \/ \E t \in Threads : MigrateLocks(t)
    \/ \E t \in Threads : MigrateSaves(t)
    \/ \E t \in Threads : ReturnsCsv(t)
    \/ \E t \in Threads : GetOrRefreshLocks(t)
    \/ \E t \in Threads : Fetches(t)
    \/ \E t \in Threads : UpdateCacheWritesCsv(t)
    \/ \E t \in Threads : UpdateCacheSavesMetadata(t)
    \/ \E t \in Threads : ReturnsData(t)
    \/ CacheClockTicks

SpecCacheManager == InitCacheManager /\ [][NextCacheManager]_vars

(* ------------------------ what the claims read ------------------------ *)

\* The last replay was a transaction-mode run that returned its series.
ReplayedLedger == portfolio_type = TRANSACTION /\ run.end = "series"

SideRows(side) == {i \in Rows(transactions) : transactions[i].side = side}

Deposited == SumFn([i \in Rows(transactions) |-> transactions[i].quantity], SideRows("DEPOSIT"))
Withdrawn == SumFn([i \in Rows(transactions) |-> transactions[i].quantity], SideRows("WITHDRAW"))
Spent ==
    SumFn([i \in Rows(transactions) |-> transactions[i].quantity * transactions[i].price],
          SideRows("BUY"))
Proceeds ==
    SumFn([i \in Rows(transactions) |-> transactions[i].quantity * transactions[i].price],
          SideRows("SELL"))
TradeFees ==
    SumFn([i \in Rows(transactions) |-> transactions[i].fee], SideRows("BUY") \cup SideRows("SELL"))
AllFees == SumFn([i \in Rows(transactions) |-> transactions[i].fee], Rows(transactions))

\* cash_history.iloc[-1]
FinalCash == cash_history[Max(DOMAIN cash_history)]

NoRowAfterToday == \A i \in Rows(transactions) : DateOf(transactions[i].datetime) <= Today

\* The time of the first BUY/SELL of the ledger.
FirstTradeTime ==
    Min({transactions[i].datetime : i \in SideRows("BUY") \cup SideRows("SELL")})

\* Deposit row i is dated at or before the first trade, both floored to the
\* minute; every deposit of a ledger without trades counts as such.
IsEarly(i) ==
    \/ SideRows("BUY") \cup SideRows("SELL") = {}
    \/ FloorMin(transactions[i].datetime) <= FloorMin(FirstTradeTime)

EarlyRows == {i \in SideRows("DEPOSIT") : IsEarly(i)}

\* What row i moves into (+) or out of (-) cash when it is applied.
Flow(i) ==
    CASE transactions[i].side = "BUY" ->
            0 - (transactions[i].quantity * transactions[i].price + transactions[i].fee)
      [] transactions[i].side = "SELL" ->
            transactions[i].quantity * transactions[i].price - transactions[i].fee
      [] transactions[i].side = "DEPOSIT" -> transactions[i].quantity
      [] transactions[i].side = "WITHDRAW" -> 0 - transactions[i].quantity

\* The cash after the first k rows of a ledger that starts with none.
RunningCash(k) == SumFn([i \in Rows(transactions) |-> Flow(i)], 1..k)

\* How far the running cash falls below zero.
Shortfall == 0 - Min({RunningCash(k) : k \in 0..Len(transactions)})

\* The rows dated on day d or before, early deposits aside.
ReplayedBy(d) ==
    {i \in Rows(transactions) \ EarlyRows : DateOf(transactions[i].datetime) <= d}

(* ------------------------------ C1 ------------------------------------ *)

\* C1 (as amended): in TRANSACTION mode without bonds and without stale-ticker
\* handling, when every row is dated no later than today and the replay
\* returns a series, the final cash cash_history.iloc[-1] equals
\* (suggested_initial_deposit if no DEPOSIT is dated at or before the first
\* BUY/SELL, else 0) + deposits - withdrawals - BUY quantity x price
\* + SELL quantity x price - the fees of the BUY and SELL rows; the fee of a
\* DEPOSIT or WITHDRAW row is never charged.
C1_FinalCash ==
    (ReplayedLedger /\ stale_ticker_handling = <<>> /\ NoRowAfterToday)
    => FinalCash = (IF EarlyRows = {} THEN suggested_initial_deposit ELSE 0)
                   + Deposited - Withdrawn - Spent + Proceeds - TradeFees

\* C1 witness: a replayed ledger of a deposit and a trade that carries a fee.
C1_Witness ==
    /\ ReplayedLedger /\ NoRowAfterToday
    /\ SideRows("DEPOSIT") # {}
    /\ TradeFees > 0
    /\ FinalCash = Deposited - Spent + Proceeds - TradeFees

\* C1 as stated: the final cash is deposits - withdrawals - buys + sells - all
\* fees for every replayed ledger.
C1_AsStated ==
    ReplayedLedger => FinalCash = Deposited - Withdrawn - Spent + Proceeds - AllFees

(* ------------------------------ C2 ------------------------------------ *)

\* C2: when set_stale_ticker_handling returns, the memoized NAV and the
\* memoized base-data bundle are gone, and the next calculate_nav_history() or
\* indicator call runs the replay again, under the new handling, and returns
\* the new run's series, not the earlier one.
C2_HandlingInvalidates ==
    [][/\ last_call'.op = "set_stale_ticker_handling"
          => nav_cache' = None /\ base_data_cache' = None
       /\ (last_call.op = "set_stale_ticker_handling" /\ last_call'.op \in IndicatorCalls)
          => /\ last_call'.replayed
             /\ replays' = replays + 1
             /\ run'.c # <<>> => run'.c.handling = stale_ticker_handling
             /\ ~last_call'.raised => last_call'.result.id = replays'
      ]_vars

\* C2 witness: the handling was set on an engine that had looked up prices
\* and returned a NAV series; nothing is memoized any more.
C2_Witness ==
    /\ last_call.op = "set_stale_ticker_handling"
    /\ run.end = "series"
    /\ DOMAIN price_cache # {}
    /\ stale_ticker_handling # <<>>
    /\ nav_cache = None
    /\ base_data_cache = None

(* ------------------------------ C3 ------------------------------------ *)

\* C3: a calculate_nav_history() call that directly follows one that returned
\* returns the identical series object, and the replay does not run for it.
C3_Memoized ==
    [][(/\ last_call.op = "calculate_nav_history"
        /\ ~last_call.raised
        /\ last_call'.op = "calculate_nav_history")
       => /\ ~last_call'.raised
          /\ last_call'.result = last_call.result
          /\ replays' = replays
      ]_vars

\* C3 witness: calculate_nav_history returned the memoized series of the one
\* replay the engine ran.
C3_Witness ==
    /\ last_call.op = "calculate_nav_history"
    /\ ~last_call.replayed
    /\ replays = 1
    /\ last_call.result.series # EmptySeries
    /\ last_call.result = nav_cache[1]
    /\ base_data_cache = None
    /\ stale_ticker_handling = <<>>

(* ------------------------------ C4 ------------------------------------ *)

\* C4 (as amended): on an engine whose stale-ticker handling is not changed,
\* once the first call has returned before any other call began, the replay
\* has run exactly once and never runs again, however the later indicator
\* calls of several threads interleave.
C4_OneReplayAfterFirstCall == first_call = "returned" => replays = 1

\* C4 witness: after the first call returned alone, every thread is inside an
\* indicator call at the same time.
C4_Witness ==
    /\ first_call = "returned"
    /\ \A t \in Threads : threads[t].pc # "idle"
    /\ \E t \in Threads : UsesBaseData(threads[t].op)
    /\ replays = 1

\* C4 as stated: the replay runs at most once whatever calls race.
C4_AsStated == replays <= 1

(* ----------------------- C5, C6: LIQUIDATE replayed ------------------- *)

\* The symbols set to LIQUIDATE for which the provider has a price history.
LiquidateSymbols ==
    {sym \in DOMAIN stale_ticker_handling :
        stale_ticker_handling[sym] = LIQUIDATE /\ DOMAIN provider[sym] # {}}

\* The quantity of sym the ledger's rows dated on day d or before add up to.
HeldOn(sym, d) ==
    SumFn([i \in Rows(transactions) |->
              IF transactions[i].side = "BUY" THEN transactions[i].quantity
              ELSE IF transactions[i].side = "SELL" THEN 0 - transactions[i].quantity
              ELSE 0],
          {i \in Rows(transactions) :
              transactions[i].symbol = sym /\ DateOf(transactions[i].datetime) <= d})

\* The replay days strictly after the last valid price date of sym.
DaysAfterLast(sym) == {d \in DOMAIN cash_history : d > LastDate(provider[sym])}

\* Those of them on which the ledger holds a positive quantity of sym.
DueDays(sym) == {d \in DaysAfterLast(sym) : HeldOn(sym, d) > 0}

\* The liquidation events recorded for sym.
EventsOf(sym) == SelectSeq(liquidation_events, LAMBDA ev : ev.symbol = sym)

\* The cash the liquidations up to day d brought in.
LiquidatedBy(d) ==
    SumFn([sym \in AllSymbols |->
              IF sym \in LiquidateSymbols /\ {x \in DueDays(sym) : x <= d} # {}
              THEN LastPrice(provider[sym]) * HeldOn(sym, Min(DueDays(sym))) ELSE 0],
          AllSymbols)

\* C5 (as amended): in a transaction-mode replay that returns a series, each
\* symbol with action LIQUIDATE and a price history is liquidated at most
\* once: on the first replay day strictly after its last valid price date on
\* which, after that day's transactions, a positive quantity of it is held,
\* and never when there is no such day.  The whole quantity then held is
\* converted to cash at the last known price, and exactly one LiquidationEvent
\* is recorded for it, dated at the last valid price date, whose cash_amount
\* equals last_price x quantity held at liquidation.
C5_LiquidatedOnce ==
    ReplayedLedger =>
        /\ \A sym \in LiquidateSymbols :
              IF DueDays(sym) = {}
              THEN run.st.liq_days[sym] = <<>> /\ EventsOf(sym) = <<>>
              ELSE /\ run.st.liq_days[sym] = <<Min(DueDays(sym))>>
                   /\ EventsOf(sym) =
                         <<[date |-> LastDate(provider[sym]),
                            symbol |-> sym,
                            price |-> LastPrice(provider[sym]),
                            quantity |-> HeldOn(sym, Min(DueDays(sym))),
                            cash_amount |-> LastPrice(provider[sym])
                                            * HeldOn(sym, Min(DueDays(sym)))]>>
                   /\ run.st.value[Min(DueDays(sym))][sym] = 0
        /\ RemovedSymbols(stale_ticker_handling) = {} =>
              \A d \in DOMAIN cash_history :
                 cash_history[d] = run.st.initial_cash
                                   + SumFn([i \in Rows(transactions) |-> Flow(i)], ReplayedBy(d))
                                   + LiquidatedBy(d)

\* C5 witness: A was bought twice and both shares were liquidated in one event
\* on a day after A's last valid price date.
C5_Witness ==
    /\ ReplayedLedger
    /\ "A" \in LiquidateSymbols
    /\ Len(run.st.liq_days["A"]) = 1
    /\ Len(liquidation_events) = 1
    /\ liquidation_events[1].quantity = 2
    /\ liquidation_events[1].cash_amount = 2 * LastPrice(provider["A"])

\* C5 as stated: a symbol of the ledger with action LIQUIDATE is liquidated
\* exactly once, on the first replay day strictly after its last valid price
\* date, with exactly one event.
C5_AsStated ==
    ReplayedLedger =>
        \A sym \in LiquidateSymbols :
            (sym \in run.c.looked /\ DaysAfterLast(sym) # {})
            => /\ run.st.liq_days[sym] = <<Min(DaysAfterLast(sym))>>
               /\ Len(EventsOf(sym)) = 1

\* C6 as stated, for ledgers that never sell more of S than they hold: with
\* action LIQUIDATE for S, the holding of S adds 0 to NAV on every date after
\* S's last valid price date.
C6_AsStated ==
    ReplayedLedger =>
        \A sym \in LiquidateSymbols :
            (\A d \in 0..MaxDay : HeldOn(sym, d) >= 0)
            => \A d \in DaysAfterLast(sym) : run.st.value[d][sym] = 0

(* ------------------------ C7: LIQUIDATE in a snapshot ----------------- *)

\* The quantity of the last position row of sym.
PositionOf(sym) ==
    positions[Max({i \in Rows(positions) : positions[i].symbol = sym})].quantity

\* The position symbols set to LIQUIDATE that have a price history and a
\* positive quantity.
SnapLiquidateSymbols ==
    {sym \in LiquidateSymbols :
        /\ \E i \in Rows(positions) : positions[i].symbol = sym
        /\ PositionOf(sym) > 0}

\* The close of sym on its last price day up to d.
CloseUpTo(sym, d) == provider[sym][Max({p \in DOMAIN provider[sym] : p <= d})]

\* C7 as stated: in SNAPSHOT mode with action LIQUIDATE for S, S is valued at
\* quantity x price on every date up to and including its last valid price
\* date; on every later date it is worth 0 and last_price x quantity is
\* included in NAV as cash.
C7_AsStated ==
    (portfolio_type = SNAPSHOT /\ run.end = "series") =>
        \A sym \in SnapLiquidateSymbols :
            \A d \in DOMAIN run.st.nav :
                IF d <= LastDate(provider[sym])
                THEN run.st.value[d][sym] = PositionOf(sym) * CloseUpTo(sym, d)
                ELSE /\ run.st.value[d][sym] = 0
                     /\ run.st.liquidated_cash[d] >= LastPrice(provider[sym]) * PositionOf(sym)
                     /\ run.st.nav[d] = SumFn(run.st.value[d], AllSymbols)
                                        + run.st.liquidated_cash[d]

(* ------------------------------ C8: REMOVE ---------------------------- *)

\* The engine's portfolio with every row of a removed symbol deleted.
WithoutRemoved ==
    [Self EXCEPT
        !.transactions =
            SelectSeq(@, LAMBDA r : r.symbol \notin RemovedSymbols(stale_ticker_handling)),
        !.positions =
            SelectSeq(@, LAMBDA r : r.symbol \notin RemovedSymbols(stale_ticker_handling))]

\* The NAV and cash series the run `out` of engine e leaves.
SeriesOf(e, out) ==
    [nav |-> IF out.end = "series" THEN out.st.nav ELSE EmptySeries,
     cash |-> IF out.end = "series" /\ e.portfolio_type = TRANSACTION
              THEN out.st.cash_history ELSE EmptySeries,
     raised |-> out.end = "raised"]

\* C8 as stated: with action REMOVE for S, the NAV and cash series are those
\* of the same portfolio with every row of S deleted.
C8_AsStated ==
    (/\ last_call.op = "calculate_nav_history"
     /\ replays = 1
     /\ RemovedSymbols(stale_ticker_handling) # {})
    => SeriesOf(Self, run) = SeriesOf(WithoutRemoved, Impl(WithoutRemoved))

(* ------------------------------ C9 ------------------------------------ *)

\* C9 (as amended): over a replay that returns a series, the deposits dated
\* at or before the first BUY/SELL (both floored to the minute) are summed
\* into initial_cash and skipped when the replay reaches them; every other
\* deposit dated no later than today is added to cash exactly once, on its own
\* date; a deposit that is neither (dated after today, after the first trade)
\* is never added.
C9_DepositsOnce ==
    ReplayedLedger =>
        /\ run.st.initial_cash =
              IF EarlyRows = {} THEN suggested_initial_deposit
              ELSE SumFn([i \in Rows(transactions) |-> transactions[i].quantity], EarlyRows)
        /\ \A i \in SideRows("DEPOSIT") :
              run.st.credited[i] =
                 IF i \in EarlyRows \/ DateOf(transactions[i].datetime) > Today THEN <<>>
                 ELSE <<DateOf(transactions[i].datetime)>>
        /\ stale_ticker_handling = <<>> =>
              \A d \in DOMAIN cash_history :
                 cash_history[d] = run.st.initial_cash
                                   + SumFn([i \in Rows(transactions) |-> Flow(i)], ReplayedBy(d))

\* C9 witness: a deposit made after the first trade was added on its own date.
C9_Witness ==
    /\ ReplayedLedger
    /\ \E i \in SideRows("DEPOSIT") \ EarlyRows :
          /\ run.st.credited[i] = <<DateOf(transactions[i].datetime)>>
          /\ DateOf(transactions[i].datetime) \in DOMAIN cash_history

\* C9 as stated: every deposit is either folded into initial_cash or added on
\* its own date.
C9_AsStated ==
    ReplayedLedger =>
        \A i \in SideRows("DEPOSIT") :
            run.st.credited[i] =
                IF i \in EarlyRows THEN <<>> ELSE <<DateOf(transactions[i].datetime)>>

(* ------------------------------ C10 ----------------------------------- *)

\* C10 (as amended): when no DEPOSIT is dated at or before the first trade,
\* the replay starts from initial_cash = suggested_initial_deposit, which is
\* the shortfall of the running cash, rounded to the nearest 100 (halves to the
\* even hundred) when above 100; on every replay date of a bond-free ledger
\* without stale-ticker handling the cash is at least suggested_initial_deposit
\* minus the shortfall: never negative when nothing was rounded down, and never
\* below -50.
C10_SuggestedStart ==
    (ReplayedLedger /\ EarlyRows = {} /\ stale_ticker_handling = <<>>) =>
        /\ run.st.initial_cash = suggested_initial_deposit
        /\ IF Shortfall <= 100 THEN suggested_initial_deposit = Shortfall
           ELSE /\ suggested_initial_deposit % 100 = 0
                /\ suggested_initial_deposit - Shortfall \in (0 - 50)..50
                /\ (Shortfall % 100 = 50 => (suggested_initial_deposit \div 100) % 2 = 0)
        /\ \A d \in DOMAIN cash_history :
              /\ cash_history[d] >= suggested_initial_deposit - Shortfall
              /\ cash_history[d] >= 0 - 50

\* C10 witness: a replay that started from a suggested deposit rounded down.
C10_Witness ==
    /\ ReplayedLedger /\ EarlyRows = {}
    /\ Shortfall > 100
    /\ suggested_initial_deposit < Shortfall
    /\ run.st.initial_cash = suggested_initial_deposit

\* C10 as stated: starting from the suggested deposit, the cash is never
\* negative on any replay date.
C10_AsStated ==
    (ReplayedLedger /\ EarlyRows = {} /\ stale_ticker_handling = <<>>) =>
        /\ run.st.initial_cash = suggested_initial_deposit
        /\ \A d \in DOMAIN cash_history : cash_history[d] >= 0

(* ------------------------------ C11 ----------------------------------- *)

\* The days the last replay recorded.
ReplayDays == DOMAIN run.st.nav

\* What the last replay moved for the bond `id` under `kind`, in order.
BondCash(id, kind) ==
    SelectSeq(run.st.bond_cash, LAMBDA e : e.id = id /\ e.kind = kind)

\* The one movement of `amount` on the first replay day on or after `date`,
\* or none when the replay has no such day.
OnceFrom(id, kind, date, amount) ==
    IF {d \in ReplayDays : d >= date} = {} THEN <<>>
    ELSE <<[day |-> Min({d \in ReplayDays : d >= date}), id |-> id, kind |-> kind,
            amount |-> amount]>>

\* What the bond movements of the last replay add up to.
BondCashTotal ==
    SumFn([k \in Rows(run.st.bond_cash) |->
              IF run.st.bond_cash[k].kind = "purchase"
              THEN 0 - run.st.bond_cash[k].amount
              ELSE run.st.bond_cash[k].amount],
          Rows(run.st.bond_cash))

\* C11: in a transaction-mode replay that returns a series, every bond's
\* purchase cost (its dirty price at purchase times face value and quantity)
\* is deducted from cash exactly once, on the first replay day on or after its
\* purchase_date, and its maturity cash face_value * quantity is credited
\* exactly once, on the first replay day on or after its maturity_date; in a
\* portfolio of bonds alone the final cash is the sum of what the bonds moved.
C11_BondCashOnce ==
    ReplayedLedger =>
        /\ \A i \in Rows(bonds) :
              /\ BondCash(bonds[i].id, "purchase")
                   = OnceFrom(bonds[i].id, "purchase", bonds[i].purchase_date,
                              CalculateBondCostBasis(bonds[i]))
              /\ BondCash(bonds[i].id, "maturity")
                   = OnceFrom(bonds[i].id, "maturity", bonds[i].maturity_date,
                              bonds[i].face_value * bonds[i].purchase_quantity)
        /\ (transactions = <<>> => FinalCash = BondCashTotal)

\* A replay of two bonds that went on after it had redeemed one of them.
C11_Witness ==
    /\ ReplayedLedger
    /\ Len(bonds) = 2
    /\ \E i \in Rows(bonds) :
          /\ Len(BondCash(bonds[i].id, "purchase")) = 1
          /\ Len(BondCash(bonds[i].id, "maturity")) = 1
          /\ \E d \in ReplayDays : d > BondCash(bonds[i].id, "maturity")[1].day

(* ------------------------------ C12 ----------------------------------- *)

\* Coupon periods counted back from maturity.
MaxPeriods == 12

\* The scheduled coupon dates of a bond that the replay can reach: maturity
\* minus a whole number of periods, from the purchase date to today.
Scheduled(bond) ==
    IF GetMonthsPerPeriod(bond.payment_frequency) = 0 THEN {}
    ELSE {d \in {AddMonths(bond.maturity_date,
                           0 - k * GetMonthsPerPeriod(bond.payment_frequency)) :
                    k \in 0..MaxPeriods} :
             d >= bond.purchase_date /\ d <= bond.maturity_date /\ d <= clock}

\* C12 as stated: a replay credits each bond exactly one coupon of
\* face_value * coupon_rate% * quantity / payment_frequency on each of its
\* scheduled coupon dates, and none on any other day.
C12_AsStated ==
    ReplayedLedger =>
        \A i \in Rows(bonds) :
            /\ {BondCash(bonds[i].id, "coupon")[k].day :
                   k \in Rows(BondCash(bonds[i].id, "coupon"))} = Scheduled(bonds[i])
            /\ \A k \in Rows(BondCash(bonds[i].id, "coupon")) :
                   BondCash(bonds[i].id, "coupon")[k].amount = CouponPerPeriod(bonds[i])

(* ------------------------------ C13 ----------------------------------- *)

\* C13 as stated: on every coupon date generate_coupon_payments gives the
\* replay for a bond, calculate_accrued_interest_per_100 is 0.
C13_AsStated ==
    ReplayedLedger =>
        \A i \in Rows(bonds) :
            \A d \in GenerateCouponPayments(bonds[i], run.c.start_date, clock) :
                CalculateAccruedInterestPer100(bonds[i], d) = 0

(* ------------------------------ C14 ----------------------------------- *)

\* C14 as stated: in SNAPSHOT mode without stale-ticker handling or bonds, NAV
\* on each date is the sum over all position rows whose symbol has price data
\* of quantity x price(date).
C14_AsStated ==
    (portfolio_type = SNAPSHOT /\ run.end = "series" /\ stale_ticker_handling = <<>>) =>
        \A d \in DOMAIN run.st.nav :
            run.st.nav[d]
              = SumFn([i \in Rows(positions) |->
                          positions[i].quantity * CloseUpTo(positions[i].symbol, d)],
                      {i \in Rows(positions) : DOMAIN provider[positions[i].symbol] # {}})

(* ------------------------------ C15 ----------------------------------- *)

\* The symbols the last run looked up and found no price history for.
Priceless == {sym \in run.looked : DOMAIN provider[sym] = {}}

\* What a symbol with price data that no handling names is worth on day d:
\* the quantity held times its close.
UsualValue(sym, d) ==
    IF portfolio_type = SNAPSHOT
    THEN (IF \E i \in Rows(positions) : positions[i].symbol = sym
          THEN PositionOf(sym) * CloseUpTo(sym, d) ELSE 0)
    ELSE HeldOn(sym, d) * CloseUpTo(sym, d)

\* C15: a call of calculate_nav_history() whose run looks up a symbol with an
\* empty price history does not raise; the symbol is in failed_tickers, it
\* adds 0 to NAV on every date, and every other symbol with price data (that
\* no stale-ticker handling names) adds its quantity times its price.
C15_FailedTickerHarmless ==
    (last_call.op = "calculate_nav_history" /\ last_call.replayed) =>
        \A sym \in Priceless :
            /\ ~last_call.raised
            /\ sym \in SeqToSet(failed_tickers)
            /\ run.end = "series" =>
                  \A d \in DOMAIN run.st.nav :
                      /\ run.st.value[d][sym] = 0
                      /\ \A other \in run.c.cols \ DOMAIN stale_ticker_handling :
                             run.st.value[d][other] = UsualValue(other, d)

\* A ledger that holds a symbol without price history next to one with.
C15_Witness ==
    /\ last_call.op = "calculate_nav_history" /\ last_call.replayed
    /\ portfolio_type = TRANSACTION
    /\ run.end = "series"
    /\ \E sym \in Priceless : \E other \in run.c.cols \ DOMAIN stale_ticker_handling :
          \E d \in DOMAIN run.st.nav :
              /\ HeldOn(sym, d) > 0
              /\ run.st.value[d][sym] = 0
              /\ run.st.value[d][other] > 0

(* ------------------------------ C16 ----------------------------------- *)

\* C16 as stated: once set_price_cache has been called, the engine asks the
\* price provider for nothing.
C16_AsStated == price_cache_set => provider_calls = {}

(* ------------------------------ C17 ----------------------------------- *)

\* C17 as stated: after every calculate_nav_history() in TRANSACTION mode that
\* returns, cash_history, bond_coupon_history and bond_maturity_cash are
\* defined on exactly the dates of the returned NAV series.
C17_AsStated ==
    (/\ portfolio_type = TRANSACTION
     /\ last_call.op = "calculate_nav_history"
     /\ ~last_call.raised)
    => /\ DOMAIN cash_history = DOMAIN last_call.result.series
       /\ DOMAIN bond_coupon_history = DOMAIN last_call.result.series
       /\ DOMAIN bond_maturity_cash = DOMAIN last_call.result.series

(* ------------------------------ C18 ----------------------------------- *)

\* The ledger [DEPOSIT 2020-01-01 qty=10000, BUY 2020-01-02 qty=10 price=100
\* fee=1, SELL 2020-06-01 qty=10 price=150 fee=1] has been replayed.
ReplayedExample ==
    /\ ReplayedLedger
    /\ transactions = TradeLedger(10000, 10, 150, 1, TRUE)

\* C18 (as amended): for a ledger that deposits an amount on 2020-01-01 and
\* buys shares at 100 with a fee on 2020-01-02, the shares being priced 100,
\* NAV(2020-01-02) is the deposit less the fee: the cash left after the
\* purchase plus the shares at their price; for the ledger of the example it
\* is 10000 - 1001 + 1000 = 9999.
C18_NavAfterBuy ==
    ReplayedLedger =>
        /\ run.st.nav[Date(2020, 1, 2)]
             = transactions[1].quantity
               - (transactions[2].quantity * transactions[2].price + transactions[2].fee)
               + transactions[2].quantity * 100
        /\ ReplayedExample => run.st.nav[Date(2020, 1, 2)] = 9999

\* The example's ledger replayed over a history without a row for 2020-01-02.
C18_Witness ==
    /\ ReplayedExample
    /\ Date(2020, 1, 2) \notin DOMAIN provider["A"]
    /\ run.st.cash_history[Date(2020, 1, 2)] = 8999
    /\ run.st.value[Date(2020, 1, 2)]["A"] = 1000

\* C18 as stated: NAV(2020-01-02) = 8999 for the ledger of the example.
C18_AsStated == ReplayedExample => run.st.nav[Date(2020, 1, 2)] = 8999

(* ------------------------------ C19 ----------------------------------- *)

\* C19: for a ledger that sells on 2020-06-01 the shares it bought, NAV on
\* that day is the deposit less the cost of the purchase plus the proceeds of
\* the sale, each with its fee - 10498 for the ledger of the example - and the
\* symbol adds nothing to NAV on that day or any later one.
C19_NavAfterSell ==
    (ReplayedLedger /\ Len(transactions) = 3) =>
        /\ run.st.nav[Date(2020, 6, 1)]
             = transactions[1].quantity
               - (transactions[2].quantity * transactions[2].price + transactions[2].fee)
               + (transactions[3].quantity * transactions[3].price - transactions[3].fee)
        /\ ReplayedExample => run.st.nav[Date(2020, 6, 1)] = 10498
        /\ \A d \in DOMAIN run.st.nav : d >= Date(2020, 6, 1) => run.st.value[d]["A"] = 0

\* The example's ledger replayed up to a day after the sale.
C19_Witness ==
    /\ ReplayedExample
    /\ run.st.nav[Date(2020, 6, 1)] = 10498
    /\ \E d \in DOMAIN run.st.nav : d > Date(2020, 6, 1) /\ run.st.nav[d] = 10498

(* ------------------------------ C20 ----------------------------------- *)

\* calculate_all_portfolio_indicators has returned for a non-empty NAV series.
IndicatorsReturned ==
    /\ last_call.op = "calculate_all_portfolio_indicators"
    /\ last_call.args.nav # <<>>

\* The optional inputs a category requires were supplied.
Supplied(category, a) ==
    CASE category = "allocation" ->
             a.weights # None /\ DOMAIN a.weights[1] # {}
      [] category = "risk_decomposition" ->
             /\ a.price_history # None /\ ~IsEmpty(a.price_history[1])
             /\ a.weights # None /\ Cardinality(DOMAIN a.weights[1]) > 1
      [] category = "trading" ->
             a.transactions # None /\ a.transactions[1] # <<>>
      [] category = "correlation" ->
             /\ a.price_history # None /\ ~IsEmpty(a.price_history[1])
             /\ Cardinality(a.price_history[1].index) > 1

\* C20 (as amended): for a non-empty NAV series the call does not raise;
\* allocation, risk_decomposition and correlation are keys of the result
\* exactly when their optional inputs were supplied; trading is always a key,
\* holding the trading metrics when transactions were supplied and None when
\* they are missing or empty.  For an empty NAV series the result is {}.
C20_OptionalCategories ==
    last_call.op = "calculate_all_portfolio_indicators" =>
        /\ ~last_call.raised
        /\ last_call.args.nav = <<>> => DOMAIN last_call.result = {}
        /\ last_call.args.nav # <<>> =>
             /\ CoreCategories \subseteq DOMAIN last_call.result
             /\ \A category \in {"allocation", "risk_decomposition", "correlation"} :
                    category \in DOMAIN last_call.result
                        <=> Supplied(category, last_call.args)
             /\ "trading" \in DOMAIN last_call.result
             /\ last_call.result["trading"] # None
                    <=> Supplied("trading", last_call.args)

\* A call without transactions and without weights: no allocation, and
\* trading is None.
C20_Witness ==
    /\ IndicatorsReturned
    /\ last_call.args.transactions = None
    /\ last_call.args.weights = None
    /\ last_call.args.price_history # None
    /\ "allocation" \notin DOMAIN last_call.result
    /\ "correlation" \in DOMAIN last_call.result
    /\ last_call.result["trading"] = None

\* C20 as stated: each of allocation, risk_decomposition, trading and
\* correlation is a key of the result only when its optional inputs were
\* supplied, and the call does not raise.
C20_AsStated ==
    IndicatorsReturned =>
        /\ ~last_call.raised
        /\ \A category \in {"allocation", "risk_decomposition", "trading", "correlation"} :
               category \in DOMAIN last_call.result
                   => Supplied(category, last_call.args)

(* ------------------------------ C21 ----------------------------------- *)

\* The ten metrics of one benchmark.
BenchmarkMetrics ==
    {"beta", "alpha", "r_squared", "correlation", "tracking_error",
     "information_ratio", "upside_capture", "downside_capture",
     "treynor_ratio", "m2_measure"}

\* C21 as stated: calculate_benchmark_comparison returns, for every benchmark
\* whose returns share fewer than 2 dates with the portfolio's, all ten
\* metrics equal to 0.0.
C21_AsStated ==
    (last_call.op = "calculate_benchmark_comparison" /\ ~last_call.raised) =>
        \A name \in DOMAIN inputs.benchmark_returns_dict :
            Cardinality(Aligned(inputs.portfolio_returns,
                                inputs.benchmark_returns_dict[name])) < 2
            => \A metric \in BenchmarkMetrics : last_call.result[name][metric] = "0.0"

(* ------------------------------ C22 ----------------------------------- *)

\* The rows of the ledger the trades involve: the lots closed and the sales.
Involved(trades) ==
    {trades[k].lot : k \in 1..Len(trades)} \cup {trades[k].sale : k \in 1..Len(trades)}

\* Sum over the matched quantities of quantity x (sell price - buy price).
GrossPnl(trades) ==
    SumFn([k \in 1..Len(trades) |->
              trades[k].quantity * (trades[k].sell_price - trades[k].buy_price)],
          1..Len(trades))

\* The SELLs are matched first-in-first-out: the lots a ledger's trades close
\* never go back to an earlier BUY of the same symbol.
FirstInFirstOut(txns, trades) ==
    \A j, k \in 1..Len(trades) :
        (j < k /\ txns[trades[j].lot].symbol = txns[trades[k].lot].symbol)
        => trades[j].lot <= trades[k].lot

\* C22 as stated: calculate_realized_pnl matches SELLs against the BUY lots of
\* the same symbol first-in-first-out and returns the sum over the matched
\* quantities of quantity x (sell price - lot buy price), minus the fees of
\* the transactions involved, buy fees as well as sell fees.
C22_AsStated ==
    last_call.op = "calculate_realized_pnl" =>
        /\ FirstInFirstOut(inputs.transactions, last_call.result.trades)
        /\ last_call.result.realized
             = GrossPnl(last_call.result.trades)
               - SumFn([i \in Involved(last_call.result.trades) |->
                           inputs.transactions[i].fee],
                       Involved(last_call.result.trades))

(* ------------------------------ C30 ----------------------------------- *)

\* The lots of the ledger that the trades have closed entirely.
ClosedLots(txns, trades) ==
    {i \in 1..Len(txns) :
        /\ txns[i].side = "BUY"
        /\ SumFn([k \in 1..Len(trades) |-> trades[k].quantity],
                 {k \in 1..Len(trades) : trades[k].lot = i}) = txns[i].quantity}

\* C30 as stated: in calculate_trade_pnl the buy-fee portions subtracted from
\* the trades that close one lot sum to that lot's fee, however the lot is
\* split across several SELLs.
C30_AsStated ==
    last_call.op = "calculate_trade_pnl" =>
        \A i \in ClosedLots(inputs.transactions, last_call.result) :
            SumFn([k \in 1..Len(last_call.result) |-> last_call.result[k].buy_fee],
                  {k \in 1..Len(last_call.result) : last_call.result[k].lot = i})
              = inputs.transactions[i].fee

(* ------------------------------ C23 ----------------------------------- *)

\* x <= 0 for a float x: false for nan.
NotAboveZero(x) == x.kind # "nan" /\ AtMost(x, Zero)

\* C23 as stated: calculate_drawdown_series is less than or equal to 0 at
\* every date for every NAV series, so calculate_max_drawdown is never
\* positive.
C23_AsStated ==
    /\ last_call.op = "calculate_drawdown_series" =>
           \A d \in DOMAIN last_call.result : NotAboveZero(last_call.result[d])
    /\ last_call.op = "calculate_max_drawdown" =>
           (last_call.result.kind = "nan" \/ NotAboveZero(last_call.result))

(* ------------------------------ C24 ----------------------------------- *)

\* C24: for every input string validate_symbol either raises ValueError or
\* returns its argument, which then holds no '/', no '\' and no '..'; the
\* CSV path built from a returned symbol lies inside the prices directory.
C24_NoTraversal ==
    (last_call.op = "validate_symbol" /\ ~last_call.raised) =>
        /\ last_call.result = inputs.symbol
        /\ \A i \in 1..Len(last_call.result) : last_call.result[i] \notin {"/", "\\"}
        /\ \A i \in 1..(Len(last_call.result) - 1) :
               ~(last_call.result[i] = "." /\ last_call.result[i + 1] = ".")
        /\ InsidePricesDir(CsvPath(last_call.result))

\* A symbol with a dot in it has been accepted.
C24_Witness ==
    /\ last_call.op = "validate_symbol"
    /\ ~last_call.raised
    /\ Len(last_call.result) > 1
    /\ \E i \in 1..Len(last_call.result) : last_call.result[i] = "."
    /\ InsidePricesDir(CsvPath(last_call.result))

(* ------------------------------ C25 ----------------------------------- *)

\* The calls for `ip` that returned True and were stamped within the 60
\* seconds that end at `at`.
AllowedInWindow(ip, at) ==
    {i \in 1..Len(answered[ip]) :
        /\ answered[ip][i].allowed
        /\ answered[ip][i].at > at - RATE_LIMIT_WINDOW
        /\ answered[ip][i].at <= at}

\* C25: for each client IP, check_rate_limit returns True for at most 10
\* calls inside any 60-second window, also when calls for that IP run
\* concurrently in several threads.
C25_AtMostTenPerWindow ==
    \A ip \in ClientIps : \A i \in 1..Len(answered[ip]) :
        Cardinality(AllowedInWindow(ip, answered[ip][i].at)) <= RATE_LIMIT_REQUESTS

\* Ten calls of one IP were allowed within a window and one more refused.
C25_Witness ==
    \E ip \in ClientIps : \E i \in 1..Len(answered[ip]) :
        /\ ~answered[ip][i].allowed
        /\ Cardinality(AllowedInWindow(ip, answered[ip][i].at)) = RATE_LIMIT_REQUESTS

(* ------------------------------ C26 ----------------------------------- *)

\* The documented streams: one that pauses for the symbol resolution, one
\* that pauses for the stale ticker handling, and one that completes.
DocumentedStreams ==
    {<<"symbols_unresolved", "awaiting_symbol_resolution">>,
     <<"prices_loaded", "stale_tickers_detected", "awaiting_stale_ticker_handling">>,
     <<"prices_loaded", "nav_calculated", "indicators_basic_calculated",
       "benchmark_comparison_calculated", "indicators_all_calculated", "complete">>}

\* The events emitted before the error event, if there is one.
BeforeError ==
    IF emitted # <<>> /\ emitted[Len(emitted)] = "error"
    THEN SubSeq(emitted, 1, Len(emitted) - 1) ELSE emitted

\* C26: within one portfolio-full stream the events are emitted in the
\* documented order only; nothing is emitted after an awaiting_* event,
\* after complete or after error; and complete is never emitted in a stream
\* that paused.
C26_EventOrder ==
    /\ \E s \in DocumentedStreams :
           Len(BeforeError) <= Len(s) /\ BeforeError = SubSeq(s, 1, Len(BeforeError))
    /\ \A i \in 1..(Len(emitted) - 1) : emitted[i] \notin LastEvents
    /\ (\E i \in 1..Len(emitted) : emitted[i] = "complete") =>
           \A i \in 1..Len(emitted) : emitted[i] \notin Pauses
    /\ (stream.pc = "closed") => (emitted # <<>> /\ emitted[Len(emitted)] \in LastEvents)

\* A stream has paused for the stale ticker handling and ended.
C26_Witness ==
    /\ stream.pc = "closed"
    /\ emitted = <<"prices_loaded", "stale_tickers_detected", "awaiting_stale_ticker_handling">>

(* ------------------------------ C27 ----------------------------------- *)

\* C27, as stated: of the callers that concurrently call get_or_refresh
\* for one symbol whose cache is missing or expired, at most one invokes
\* fetch_func, and the callers that did not fetch return the data that
\* fetch cached.
C27_AsStated ==
    /\ Len(fetched) <= 1
    /\ \A t \in Threads :
           (callers[t].pc = "returned" /\ \A i \in 1..Len(fetched) : fetched[i] # t) =>
               /\ fetched # <<>>
               /\ callers[t].result = Some(FetchedFrame(fetched[1], FALSE))

(* ------------------------------ C28 ----------------------------------- *)

\* C28, as stated: after any sequence of set_stale_ticker_handling and
\* calculate_nav_history calls on one engine, failed_tickers lists each
\* symbol with empty price history at most once.
C28_AsStated ==
    \A i, j \in 1..Len(failed_tickers) :
        failed_tickers[i] = failed_tickers[j] => i = j

(* ------------------------------ C29 ----------------------------------- *)

\* What the last replay moved into cash for the bond on day d.
BondCashOn(bond, d) ==
    SumFn([k \in Rows(run.st.bond_cash) |->
              IF run.st.bond_cash[k].id # bond.id \/ run.st.bond_cash[k].day # d THEN 0
              ELSE IF run.st.bond_cash[k].kind = "purchase"
              THEN 0 - run.st.bond_cash[k].amount
              ELSE run.st.bond_cash[k].amount],
          Rows(run.st.bond_cash))

\* What the bond adds to daily_value on day d: it is in matured_bonds from
\* its maturity date on.
BondValueOn(bond, d) ==
    IF d >= bond.maturity_date THEN 0 ELSE CalculateBondValue(bond, d)

\* C29, as stated: in a transaction-mode replay, buying a bond without a
\* current_price override leaves NAV unchanged on its purchase day: the cost
\* basis deducted from cash that day equals the bond value added to NAV that
\* day.
C29_AsStated ==
    ReplayedLedger =>
        \A i \in Rows(bonds) :
            (bonds[i].current_price = None /\ bonds[i].purchase_date \in ReplayDays) =>
                /\ CalculateBondCostBasis(bonds[i])
                     = BondValueOn(bonds[i], bonds[i].purchase_date)
                /\ BondCashOn(bonds[i], bonds[i].purchase_date)
                     + BondValueOn(bonds[i], bonds[i].purchase_date) = 0

====
